---------------------------- MODULE Spec2Model ----------------------------
(***************************************************************************)
(* Launch-CTRL: the Supervisor's event orchestration (server/supervisor/   *)
(* store.js) with the Policy Store, the manual auto toggle, Agent A's      *)
(* batch probe, Agent B's mitigateSite, Agent C's casebook, the Incident   *)
(* Bus channels and the tower simulator behind the Tower Client.           *)
(*                                                                         *)
(* Every `await` of the JavaScript source is a point where another task    *)
(* of the single-threaded process may run: an async function is a task     *)
(* record with a pc naming the await it is suspended at, and one action    *)
(* runs it from that await to the next one.  Log lines and SSE writes are  *)
(* outputs no modelled decision reads; they are left out.  Time is in      *)
(* milliseconds.                                                           *)
(***************************************************************************)
EXTENDS Integers, Sequences, FiniteSets, TLC

VARIABLES
  now,          \* Date.now()
  supervisor,   \* store.js `supervisor` object
  lastRet,      \* message returned by the last lifecycle call
  processed,    \* store.js `processed` Map: event id -> time remembered
  policy,       \* policy/store.js `policy`
  notified,     \* policy versions pushed to change listeners and subscribers
  autoEnabled,  \* pipeline.js manual toggle
  agents,       \* status of Agent A, B, C
  agentC,       \* Agent C casebook and _lastBySite
  tower,        \* the simulator's state of site S1 and how it answers
  lastState,    \* tower/bridge.js cached snapshot
  emitter,      \* deltaEmitter.js the singleton's remembered views
  buffer,       \* incidentBus.js ring of events emitted on 'event'
  tasks,        \* suspended / finished async invocations
  handled,      \* events handleEvent was invoked with, in order
  published,    \* events emitted on channel 'event' while status = running
  subscribers,  \* incidentBus.js SSE clients and the lines written to each
  perSite,      \* Agent A: the open and the closed incidents of each site
  envCalls      \* external stimuli so far

vars == <<now, supervisor, lastRet, processed, policy, notified, autoEnabled, agents,
          agentC, tower, lastState, emitter, buffer, tasks, handled,
          published, subscribers, perSite, envCalls>>

-----------------------------------------------------------------------------
(* Bounds of the model *)

MaxEnv == 3       \* external stimuli (requests, bus emissions, clock ticks)
MaxFaultEvents == 2   \* events delivered while agents may throw
MaxApprovalEvents == 10   \* events that end in an approval request
MaxPending == 3   \* approvals waiting when a further alarm event arrives
MaxPolicyCalls == 2   \* POST /policy requests
MaxSnapshots == 3   \* snapshots pushed by the simulator
MaxBatch == 3   \* events in one correlate batch
MaxFilterEvents == 2   \* events sent to the Agent A probe
MaxRecords == 4   \* recordIncident calls and clock steps
MaxLedgerEvents == 4   \* events with distinct ids handed in during a ledger run
MaxLedgerTicks == 2   \* clock steps of a ledger run
MaxHeals == 8   \* _healRadio invocations of one mitigateSite: 2 planned, 2 per sweep
MaxHandlers == 3   \* handlers Agent A may have registered on the bus
MaxStreamTicks == 1   \* clock steps of a streaming run
MaxLifecycleTicks == 4   \* clock steps of a lifecycle run
LifecycleTickMs == 1500   \* one clock step of a lifecycle run, in ms
MaxPublishes == 102   \* events published to the ring
MaxBusEvents == 3   \* events published to the subscribers

(* Program constants *)

DEDUP_WINDOW_MS == 10000
PROCESSED_TTL_MS == 60000
PROCESSED_PRUNE_SIZE == 5000
MAX_EVENTS == 100
MAX_SWEEPS == 3
MAX_RRU_ATTEMPTS == 3

TickMs == DEDUP_WINDOW_MS   \* the clock advances in steps of one dedup window

NoTime == -1                \* null / undefined / '' timestamp
NoSite == [present |-> FALSE]

\* a remembered view of the Delta Emitter: null, or an object with its entries
Null == [null |-> TRUE, entries |-> <<>>]
Obj(entries) == [null |-> FALSE, entries |-> entries]

\* whether the first snapshot's alarms are emitted as raised, by default
BOOTSTRAP_EMIT_CURRENT == TRUE

\* new DeltaEmitter(bus, { bootstrapEmit })
DeltaEmitter(bootstrapEmit) ==
  [bootstrapEmit |-> bootstrapEmit,
   lastAlarmsBySite |-> Null, lastServiceBySite |-> Null]

\* the exported singleton: new DeltaEmitter(incidentBus)
NewEmitter == DeltaEmitter(BOOTSTRAP_EMIT_CURRENT)

\* Agent A as constructed: this.perSite without incidents
NewPerSite == [s \in {"S1", "S2"} |-> [open |-> <<>>, closed |-> <<>>]]

\* incidentBus.js `subscribers`: the SSE clients that may connect
SubIds == {1, 2}

NoSubscribers ==
  [id \in SubIds |-> [attached |-> FALSE, broken |-> FALSE, received |-> <<>>]]

\* reset()
reset(e) == [e EXCEPT !.lastAlarmsBySite = Null, !.lastServiceBySite = Null]

-----------------------------------------------------------------------------
(* Policy store *)

E2E == "E2E automation"
HITL == "Human intervention at critical steps"

\* updatedAt is the time the module was loaded; no source is recorded yet
DEFAULT_POLICY ==
  [alarmPrioritization |-> "Critical First",
   waysOfWorking |-> HITL,
   kpiAlignment |-> ">95%",
   updatedAt |-> TickMs,
   version |-> 1,
   source |-> ""]

ALARM_OPTIONS == {"Critical First", "Adaptive Correlation"}
WOW_OPTIONS == {E2E, HITL}
KPI_OPTIONS == {">95%", "75%"}

PolicyFields == {"alarmPrioritization", "waysOfWorking", "kpiAlignment"}

\* String(v).toLowerCase() on the strings the model uses
toLowerCase(v) ==
  CASE v = "Critical First" -> "critical first"
    [] v = "Adaptive Correlation" -> "adaptive correlation"
    [] v = "ADAPTIVE CORRELATION" -> "adaptive correlation"
    [] v = "E2E automation" -> "e2e automation"
    [] v = "e2e AUTOMATION" -> "e2e automation"
    [] v = "Human intervention at critical steps" -> "human intervention at critical steps"
    [] v = "MainsFailure" -> "mainsfailure"
    [] v = "ServiceUnavailable" -> "serviceunavailable"
    [] v = "HeartbeatFailure" -> "heartbeatfailure"
    [] v = "Heartbeat" -> "heartbeat"
    [] v = "NOOP" -> "noop"
    [] v = "DoorOpen" -> "dooropen"
    [] OTHER -> v

\* lower-case key -> canonical string
toCanonMap(arr) ==
  [k \in {toLowerCase(v) : v \in arr} |-> CHOOSE v \in arr : toLowerCase(v) = k]

CANON(field) ==
  CASE field = "alarmPrioritization" -> toCanonMap(ALARM_OPTIONS)
    [] field = "waysOfWorking" -> toCanonMap(WOW_OPTIONS)
    [] field = "kpiAlignment" -> toCanonMap(KPI_OPTIONS)

\* toCanonical throws for this value
throws(value, map) == toLowerCase(value) \notin DOMAIN map

toCanonical(value, map) == map[toLowerCase(value)]

\* validatePatch throws: some field the patch carries has no canonical value
rejects(patch) ==
  \E f \in PolicyFields \cap DOMAIN patch : throws(patch[f], CANON(f))

\* faulty variant: the patch values are stored as they were sent
validatePatch_asSent(patch) ==
  [f \in PolicyFields \cap DOMAIN patch |-> patch[f]]

\* a patch is a function from the fields it carries to their values
validatePatch(patch) ==
  [f \in PolicyFields \cap DOMAIN patch |-> toCanonical(patch[f], CANON(f))]

\* setPolicy(patch, source) for a patch validatePatch accepts
setPolicy(p, patch, t, source) ==
  LET valid == validatePatch(patch)
      pick(f) == IF f \in DOMAIN valid THEN valid[f] ELSE p[f] IN
  [alarmPrioritization |-> pick("alarmPrioritization"),
   waysOfWorking |-> pick("waysOfWorking"),
   kpiAlignment |-> pick("kpiAlignment"),
   updatedAt |-> t,
   version |-> p.version + 1,
   source |-> source]

\* the field named in the error message: the first one validatePatch refuses
refused(patch) ==
  LET bad(f) == f \in DOMAIN patch /\ throws(patch[f], CANON(f)) IN
  IF bad("alarmPrioritization") THEN "alarmPrioritization"
  ELSE IF bad("waysOfWorking") THEN "waysOfWorking"
  ELSE "kpiAlignment"

\* faulty variant: the fields that validate are applied although the call throws
policyAfter_partial(p, patch, t, source) ==
  LET ok == {f \in PolicyFields \cap DOMAIN patch : ~throws(patch[f], CANON(f))} IN
  setPolicy(p, [f \in ok |-> patch[f]], t, source)

\* the module's policy after setPolicy(patch, source) returned or threw
policyAfter(p, patch, t, source) ==
  IF rejects(patch) THEN p ELSE setPolicy(p, patch, t, source)

\* the waysOfWorking patches the model's operator sends
WowPatches == {E2E, HITL}

setPolicyWow(p, wow) == setPolicy(p, [waysOfWorking |-> wow], now, "rest:post")

isE2E(p) == p.waysOfWorking = E2E

autoEffective(p, toggle) == isE2E(p) \/ toggle

-----------------------------------------------------------------------------
(* Events and the duplicate ledger *)

Ev(type, siteId, alarm, timestamp, ts) ==
  [type |-> type, siteId |-> siteId, alarm |-> alarm,
   timestamp |-> timestamp, ts |-> ts]

\* evt.timestamp || evt.ts
evtTime(evt) == IF evt.timestamp # NoTime THEN evt.timestamp ELSE evt.ts

eventId(evt) == <<evt.type, evt.siteId, evt.alarm, evtTime(evt)>>

\* events a producer may emit
BusEvents ==
  { Ev("alarm.raised", "S1", "MainsFailure", NoTime, 1),
    Ev("alarm.raised", "S1", "ServiceUnavailable", NoTime, 1),
    Ev("alarm.raised", "S1", "MainsFailure", 1, NoTime),
    Ev("alarm.raised", "", "MainsFailure", NoTime, 1),
    Ev("alarm.cleared", "S1", "MainsFailure", NoTime, 1),
    Ev("service.changed", "S1", "", NoTime, 1) }

Has(led, id) == id \in DOMAIN led

\* faulty variant: nothing is ever evicted
rememberPruned_never(led, t) == led

rememberPruned(led, t) ==
  IF Cardinality(DOMAIN led) > PROCESSED_PRUNE_SIZE
  THEN [k \in {j \in DOMAIN led : ~(led[j] < t - PROCESSED_TTL_MS)} |-> led[k]]
  ELSE led

\* faulty variant: entries older than the TTL are evicted at every insertion
remember_expiring(led, id, t) ==
  [k \in {j \in (DOMAIN led) \cup {id} : j = id \/ ~(led[j] < t - PROCESSED_TTL_MS)}
     |-> IF k = id THEN t ELSE led[k]]

remember(led, id, t) ==
  rememberPruned([k \in (DOMAIN led) \cup {id} |-> IF k = id THEN t ELSE led[k]], t)

Actionable == {"alarm.raised", "service.changed"}

-----------------------------------------------------------------------------
(* The tower simulator behind the Tower Client (one site, S1) *)

Site(mains, alive, a1, a2, batt) ==
  [present |-> TRUE, mains |-> mains, siteAlive |-> alive,
   antenna1 |-> a1, antenna2 |-> a2, batteryPercent |-> batt]

Healthy == Site("on", TRUE, "Available", "Available", 80)
Outage == Site("off", TRUE, "Unavailable", "Unavailable", 80)
SiteDown == Site("on", FALSE, "Available", "Available", 80)

\* how the simulator answers: "ok" serves every request, "noboot" serves them
\* but never reports the site alive, "down" fails every request
TowerInits ==
  { [site |-> Healthy,  mode |-> "ok"],
    [site |-> Outage,   mode |-> "ok"],
    [site |-> SiteDown, mode |-> "noboot"],
    [site |-> Outage,   mode |-> "down"] }

\* the alarms array the simulator reports for a site
simAlarms(site) ==
  (IF site.mains = "off" THEN <<"MainsFailure">> ELSE <<>>) \o
  (IF site.antenna1 = "Unavailable" \/ site.antenna2 = "Unavailable"
   THEN <<"ServiceUnavailable">> ELSE <<>>)

\* POST /power {sites, state:'on'}
simPowerOn(t) ==
  IF t.mode = "down" THEN t
  ELSE [t EXCEPT !.site.mains = "on", !.site.siteAlive = (t.mode = "ok")]

\* POST /rru {site, antenna, state}
simRru(t, antenna, state) ==
  IF t.mode = "down" THEN t
  ELSE LET svc == IF state = "off" THEN "Unavailable"
                  ELSE IF t.site.mains = "on" /\ t.site.siteAlive
                       THEN "Available"
                       ELSE IF antenna = "a1" THEN t.site.antenna1
                                              ELSE t.site.antenna2
       IN IF antenna = "a1" THEN [t EXCEPT !.site.antenna1 = svc]
                            ELSE [t EXCEPT !.site.antenna2 = svc]

\* GET /state, then snap?.state?.sites?.[siteId] || null
fetchSite(t, siteId) ==
  IF t.mode = "down" \/ siteId # "S1" THEN NoSite ELSE t.site

\* tower/bridge.js getTowerSnapshot: the cached state, else GET /state
getTowerSnapshot(cache, t) ==
  IF cache.present THEN [ok |-> TRUE, sites |-> <<[siteId |-> "S1", alarms |-> simAlarms(cache)]>>]
  ELSE IF t.mode = "down" THEN [ok |-> FALSE, sites |-> <<>>]
  ELSE [ok |-> TRUE, sites |-> <<[siteId |-> "S1", alarms |-> simAlarms(t.site)]>>]

-----------------------------------------------------------------------------
(* Agent B: alarm detection and plan construction *)

_detectAlarms(site) ==
  IF ~site.present THEN <<>>
  ELSE (IF site.mains = "off" THEN <<"Mains.Off">> ELSE <<>>) \o
       (IF site.siteAlive = FALSE THEN <<"Site.Down">> ELSE <<>>) \o
       (IF site.antenna1 = "Unavailable" THEN <<"Antenna.A1.Unavailable">> ELSE <<>>) \o
       (IF site.antenna2 = "Unavailable" THEN <<"Antenna.A2.Unavailable">> ELSE <<>>) \o
       (IF site.mains = "off" /\ site.batteryPercent < 40
        THEN <<"Battery.Low.GridDown">> ELSE <<>>)

InSeq(x, s) == \E i \in 1..Len(s) : s[i] = x

Step(action, antenna) == [action |-> action, siteId |-> "S1", antenna |-> antenna]

_buildPlan(site) ==
  LET alarms == _detectAlarms(site) IN
  (IF InSeq("Mains.Off", alarms) THEN <<Step("power.on", "")>> ELSE <<>>) \o
  (IF InSeq("Antenna.A1.Unavailable", alarms) THEN <<Step("rru.ensure", "a1")>> ELSE <<>>) \o
  (IF InSeq("Antenna.A2.Unavailable", alarms) THEN <<Step("rru.ensure", "a2")>> ELSE <<>>) \o
  (IF site.mains = "off" /\ site.batteryPercent < 40
      /\ site.antenna1 = "Available" /\ site.antenna2 = "Available"
   THEN <<Step("rru.off", "a2")>> ELSE <<>>)

\* alarms.filter(a => a.code.startsWith('Antenna.')) as the antennas to heal
radioAlarms(site) ==
  (IF InSeq("Antenna.A1.Unavailable", _detectAlarms(site)) THEN <<"a1">> ELSE <<>>) \o
  (IF InSeq("Antenna.A2.Unavailable", _detectAlarms(site)) THEN <<"a2">> ELSE <<>>)

svcOf(site, antenna) ==
  IF ~site.present THEN "undefined"
  ELSE IF antenna = "a1" THEN site.antenna1 ELSE site.antenna2

NoResult == [kind |-> "none", ok |-> FALSE, error |-> "none", allClear |-> FALSE,
             plan |-> <<>>, actionsTaken |-> <<>>, cleared |-> <<>>,
             remaining |-> <<>>, passes |-> 0]

-----------------------------------------------------------------------------
(* Agent A: the batch probe the Supervisor calls with one event *)

NOISE_ALARMS == {"unknown", "heartbeat", "noop"}

\* String(alarm || '').toLowerCase() is in the noise set
isNoiseAlarm(a) == toLowerCase(a) \in NOISE_ALARMS

\* /ServiceUnavailable/i, /HeartbeatFailure/i, /MainsFailure/i
CRITICAL_PATTERNS == {"serviceunavailable", "heartbeatfailure", "mainsfailure"}

\* rx.test(s): none of the strings the model uses contains a pattern without
\* being that pattern in some letter case
isCriticalAlarm(a) == toLowerCase(a) \in CRITICAL_PATTERNS

\* String(getPolicy()?.alarmPrioritization || '').toLowerCase() || 'critical first'
policyMode(p) == toLowerCase(p.alarmPrioritization)

\* faulty variant: a filter that lets unknown sites and noise through
correlateKeeps_all(p, siteId, typ) ==
  ~(policyMode(p) = "critical first" /\ ~isCriticalAlarm(typ))

\* the filter Agent A applies to (siteId, alarm or type), batch and streaming
correlateKeeps(p, siteId, typ) ==
  /\ siteId # "" /\ siteId # "unknown"
  /\ ~isNoiseAlarm(typ)
  /\ ~(policyMode(p) = "critical first" /\ ~isCriticalAlarm(typ))

-----------------------------------------------------------------------------
(* Agent C: recordIncident *)

NOISE_CAUSES == {"unknown", "heartbeat", "noop"}

\* !siteId || siteId === 'unknown' || NOISE_CAUSES.has(String(cause || '').toLowerCase())
_isNoise(siteId, cause) ==
  siteId = "" \/ siteId = "unknown" \/ toLowerCase(cause) \in NOISE_CAUSES

NoLast == [cause |-> "", resolution |-> "", ts |-> NoTime]

_dedupHit(last, cause, resolution, t) ==
  /\ last.ts # NoTime
  /\ last.cause = cause /\ last.resolution = resolution
  /\ t - last.ts < DEDUP_WINDOW_MS

\* the agent as constructed: empty casebook, no tasks, _lastBySite without
\* an entry for either site
NewAgentC ==
  [casebook |-> <<>>, last |-> [s \in {"S1", "S2"} |-> NoLast], tasks |-> 0]

\* recordIncident returns { skipped: true } (rca.js 128-136)
recordRejects(ac, siteId, cause, resolution, t) ==
  \/ _isNoise(siteId, cause)
  \/ _dedupHit(ac.last[siteId], cause, resolution, t)

\* _dedup when it does not hit: this._lastBySite.set(siteId, ...)
_dedup(ac, siteId, cause, resolution, t) ==
  [ac EXCEPT !.last[siteId] = [cause |-> cause, resolution |-> resolution, ts |-> t]]

\* this.casebook.push(item); this.tasks += 1
casebookPush(ac, item) ==
  [ac EXCEPT !.casebook = Append(@, item), !.tasks = @ + 1]

_detectAlarmsFromSite(site) ==
  IF ~site.present THEN <<>>
  ELSE (IF site.mains = "off" THEN <<"Mains.Off">> ELSE <<>>) \o
       (IF site.siteAlive = FALSE THEN <<"Site.Down">> ELSE <<>>) \o
       (IF site.antenna1 = "Unavailable" THEN <<"Antenna.A1.Unavailable">> ELSE <<>>) \o
       (IF site.antenna2 = "Unavailable" THEN <<"Antenna.A2.Unavailable">> ELSE <<>>)

Case(siteId, cause, actions, resolution, site, t) ==
  LET ongoing == resolution # "restored" \/ Len(_detectAlarmsFromSite(site)) > 0 IN
  [ts |-> t, siteId |-> siteId, cause |-> cause, actions |-> actions,
   resolution |-> resolution, ongoing |-> ongoing, dispatchSuggested |-> ongoing]

-----------------------------------------------------------------------------
(* Tasks: one record per invocation of an async function.  kind is        *)
(* "handle" (handleEvent), "start" (start() after its first await),       *)
(* "ensureRun" (ensureAgentsRunning called by resume) or "ensureStop"     *)
(* (ensureAgentsStopped called by stop); pc names the await it waits on.  *)

NoEvt == Ev("", "", "", NoTime, NoTime)

NewTask(kind, pc, evt, parent) ==
  [kind |-> kind, pc |-> pc, evt |-> evt, parent |-> parent,
   path |-> "none",        \* handleEvent: "hitl" or "auto" once decided
   decidedV |-> 0,         \* policy version when the path was decided
   e2e |-> FALSE,          \* mitigateSite: policy read at entry
   site |-> NoSite,        \* mitigateSite: `site`
   hs |-> NoSite,          \* _healRadio: `s`
   plan |-> <<>>, idx |-> 0,
   initial |-> <<>>,       \* mitigateSite: initial.alarms
   hret |-> "", ant |-> "", attempt |-> 0, tries |-> 0,
   pass |-> 0, radio |-> <<>>, mainsOff |-> FALSE,
   acts |-> <<>>,          \* mitigateSite: actionsTaken
   cmds |-> 0,             \* power / rru requests sent by this invocation
   mitCalls |-> 0,         \* mitigateSite calls made by this invocation
   res |-> NoResult,       \* what mitigateSite returned
   approval |-> 0,         \* id of the approval this invocation enqueued
   finalRes |-> "",        \* resolution of the post-B recordIncident call
   finalCalls |-> 0,       \* post-B recordIncident calls made
   finalRecorded |-> FALSE,\* the post-B call appended a case
   errs |-> 0,             \* agent exceptions this invocation caught
   swept |-> <<>>,         \* coldStartSweep: (siteId, alarm) of its snapshot
   items |-> <<>>,         \* coldStartSweep: (siteId, alarm) still to feed
   fed |-> <<>>,           \* coldStartSweep: events fed so far
   child |-> 0,       \* coldStartSweep: the handleEvent it awaits
   caseNo |-> 0,      \* recordIncident: position of the case it pushed
   heals |-> <<>>]    \* mitigateSite: its _healRadio invocations, in order

\* a finished invocation keeps what it decided and did, not its locals
Done(t) ==
  [t EXCEPT !.pc = "done", !.site = NoSite, !.hs = NoSite, !.plan = <<>>,
            !.initial = <<>>, !.idx = 0, !.hret = "", !.ant = "", !.attempt = 0, !.tries = 0,
            !.pass = 0, !.radio = <<>>, !.mainsOff = FALSE, !.acts = <<>>,
            !.items = <<>>, !.child = 0]

\* agentA.start() (part_007 70-90): a stopped agent becomes running and
\* registers one more handler on channel 'event'; hA counts the handlers,
\* which stop() never removes (the disposer of _attachBus is a no-op)
startA(ag) ==
  IF ag.A = "running" THEN ag ELSE [ag EXCEPT !.A = "running", !.hA = @ + 1]

\* (evt?.siteId && String(evt.siteId).trim()) || null
siteIdOf(evt) == evt.siteId

\* evt.alarm || evt.type || 'unknown'
probeType(evt) == IF evt.alarm # "" THEN evt.alarm ELSE evt.type

\* the world a continuation reads and writes, with the task running it
Cfg(t) == [t |-> t, sup |-> supervisor, tower |-> tower, agentC |-> agentC,
           agents |-> agents]

-----------------------------------------------------------------------------
(* Supervisor approvals *)

\* String(n) of a non-negative integer: its decimal digits
RECURSIVE idString(_)
idString(n) == IF n < 10 THEN <<n>> ELSE Append(idString(n \div 10), n % 10)

\* supervisor.lastNote: a message text with the id and the argument it embeds
Note(text, id, arg) == [text |-> text, id |-> id, arg |-> arg]

NoNote == Note("", <<>>, "")

\* note(message), which supervisorNote() calls for the agents
note(sup, n) == [sup EXCEPT !.lastNote = n]

\* faulty variant: the id counter is read but not advanced
addApprovalRequest_sameId(sup, siteId, actions, t) ==
  [sup EXCEPT
     !.approvals = Append(@, [id |-> idString(sup.nextApprovalId), siteId |-> siteId,
                              actions |-> actions, createdAt |-> t]),
     !.lastNote = Note("Approval requested", idString(sup.nextApprovalId), siteId)]

addApprovalRequest(sup, siteId, actions, t) ==
  LET id == idString(sup.nextApprovalId) IN
  [sup EXCEPT
     !.nextApprovalId = @ + 1,
     !.approvals = Append(@, [id |-> id, siteId |-> siteId,
                              actions |-> actions, createdAt |-> t]),
     !.lastNote = Note("Approval requested", id, siteId)]

\* faulty variant: the lookup stops at the first pending approval
findIndex_first(approvals, id) == IF approvals = <<>> THEN 0 ELSE 1

\* approvals.findIndex(a => a.id === id), counted from 1; 0 when none
findIndex(approvals, id) ==
  IF \E k \in DOMAIN approvals : approvals[k].id = id
  THEN CHOOSE k \in DOMAIN approvals :
         /\ approvals[k].id = id
         /\ \A j \in 1..(k - 1) : approvals[j].id # id
  ELSE 0

\* approvals.splice(idx, 1)
splice(approvals, idx) ==
  SubSeq(approvals, 1, idx - 1) \o SubSeq(approvals, idx + 1, Len(approvals))

\* the Supervisor after resolveApproval(id, decision)
resolveApproval(sup, id, decision) ==
  LET idx == findIndex(sup.approvals, id) IN
  IF idx = 0 THEN sup
  ELSE [sup EXCEPT !.approvals = splice(@, idx),
                   !.lastNote = Note("Approval", id, decision)]

\* what resolveApproval(id, decision) returns: the item, or null
resolveReturn(sup, id) ==
  LET idx == findIndex(sup.approvals, id) IN
  IF idx = 0 THEN [found |-> FALSE] ELSE [found |-> TRUE, item |-> sup.approvals[idx]]

-----------------------------------------------------------------------------
(* handleEvent after mitigateSite returned `result` (store.js 354-368 on   *)
(* the HITL path, 380-402 on the auto path)                                *)

\* faulty variant: the outcome is never reported as restored
finalResolution_stabilized(result) == "stabilized"

finalResolution(result) ==
  IF result.ok /\ result.allClear THEN "restored" ELSE "stabilized"

hitlEnqueues(result) == result.error = "approval_required"

Return(c, result) ==
  IF c.t.path = "hitl"
  THEN [c EXCEPT
          !.sup = IF hitlEnqueues(result)
                  THEN addApprovalRequest(c.sup, siteIdOf(c.t.evt), result.plan, now)
                  ELSE c.sup,
          !.t = Done([c.t EXCEPT !.res = result,
                                 !.approval = IF hitlEnqueues(result)
                                              THEN c.sup.nextApprovalId ELSE 0])]
  ELSE [c EXCEPT !.t = [c.t EXCEPT !.res = result, !.pc = "C2"]]

-----------------------------------------------------------------------------
(* mitigateSite, E2E execution (troubleshooting.js 223-294)                *)

Finish(c) ==
  LET finalAlarms == _detectAlarms(c.t.site)
      absent(a0) == ~InSeq(a0, finalAlarms)
      text == IF Len(finalAlarms) = 0 THEN "Troubleshooting: restored"
              ELSE "Troubleshooting: stabilized" IN
  Return([c EXCEPT !.sup = note(c.sup, Note(text, <<>>, siteIdOf(c.t.evt)))], [kind |-> "mitigated", ok |-> TRUE, error |-> "none",
             allClear |-> (Len(finalAlarms) = 0), plan |-> <<>>,
             actionsTaken |-> c.t.acts,
             cleared |-> SelectSeq(c.t.initial, absent),
             remaining |-> finalAlarms,
             passes |-> c.t.pass])

\* one invocation of _healRadio: the antenna, the attempt it is in, the rru
\* commands it sent and what it returned ("" while it runs)
NewHeal(antenna) == [ant |-> antenna, attempts |-> 1, cmds |-> 0, out |-> ""]

\* _healRadio returns { ok: true } or { ok: false, error: 'rru_unavailable' }
healed(c, out) == [c EXCEPT !.t.heals[Len(c.t.heals)].out = out]

\* while (pass < MAX_SWEEPS) { pass += 1; site = await _waitAndGet(1) ...
StartPass(c) ==
  IF c.t.pass < MAX_SWEEPS
  THEN [c EXCEPT !.t = [c.t EXCEPT !.pass = @ + 1, !.pc = "W3", !.tries = 1]]
  ELSE [c EXCEPT !.t = [c.t EXCEPT !.pc = "W4", !.tries = 2]]

\* for (const ra of radioAlarms) ...; if (mainsOff) ...
NextRadio(c) ==
  IF Len(c.t.radio) > 0
  THEN [c EXCEPT !.t = [c.t EXCEPT !.ant = Head(c.t.radio), !.attempt = 1,
                                   !.heals = Append(@, NewHeal(Head(c.t.radio))),
                                   !.hret = "sweep", !.pc = "Hon"]]
  ELSE IF c.t.mainsOff
  THEN [c EXCEPT !.t = [c.t EXCEPT !.pc = "Spow"]]
  ELSE StartPass(c)

\* for (const step of initial.steps) await _applyStep(step)
NextPlanStep(c) ==
  IF c.t.idx > Len(c.t.plan)
  THEN [c EXCEPT !.t = [c.t EXCEPT !.pc = "W1", !.tries = 2]]
  ELSE LET step == c.t.plan[c.t.idx] IN
       IF step.action = "power.on"
       THEN [c EXCEPT !.t = [c.t EXCEPT !.pc = "Xpow"]]
       ELSE IF step.action = "rru.off"
       THEN [c EXCEPT !.t = [c.t EXCEPT !.ant = step.antenna, !.pc = "Xoff"]]
       ELSE [c EXCEPT !.t = [c.t EXCEPT !.ant = step.antenna, !.attempt = 1,
                                        !.heals = Append(@, NewHeal(step.antenna)),
                                        !.hret = "plan", !.pc = "Hon"]]

\* _healRadio returned to the plan loop or to the sweep loop
HealReturn(c) ==
  IF c.t.hret = "plan"
  THEN NextPlanStep([c EXCEPT !.t = [c.t EXCEPT !.acts = Append(@, c.t.plan[c.t.idx]),
                                                !.idx = @ + 1, !.hs = NoSite]])
  ELSE NextRadio([c EXCEPT !.t = [c.t EXCEPT !.acts = Append(@, Step("rru.ensure", c.t.ant)),
                                             !.radio = Tail(@), !.hs = NoSite]])

\* _healRadio after its first read: success, or the OFF/ON reset
HealCheck(c, s) ==
  IF svcOf(s, c.t.ant) = "Available" THEN HealReturn(healed(c, "ok"))
  ELSE [c EXCEPT !.t = [c.t EXCEPT !.hs = s, !.pc = "Hoff"]]

\* after the post-plan _waitAndGet(2): wait for boot, or start the sweeps
AfterSettle(c) ==
  IF c.t.site.mains = "on" /\ ~c.t.site.siteAlive
  THEN [c EXCEPT !.t = [c.t EXCEPT !.pc = "W2", !.tries = 3]]
  ELSE StartPass(c)

-----------------------------------------------------------------------------
(* Initial state: every module as constructed *)

Init ==
  /\ now = TickMs
  /\ supervisor = [status |-> "idle", startedAt |-> NoTime, runtimeSec |-> 0,
                   tasksRouted |-> 0, lastNote |-> NoNote, approvals |-> <<>>,
                   nextApprovalId |-> 1]
  /\ lastRet = ""
  /\ processed = <<>>
  /\ policy = DEFAULT_POLICY
  /\ notified = <<>>
  /\ autoEnabled = FALSE
  /\ agents = [A |-> "stopped", B |-> "stopped", C |-> "stopped", hA |-> 0]
  /\ agentC = NewAgentC
  /\ tower \in TowerInits
  /\ lastState = NoSite
  /\ emitter = NewEmitter
  /\ buffer = <<>>
  /\ tasks = <<>>
  /\ handled = <<>>
  /\ published = <<>>
  /\ subscribers = NoSubscribers
  /\ perSite = NewPerSite
  /\ envCalls = 0

Env == /\ envCalls < MaxEnv
       /\ envCalls' = envCalls + 1

-----------------------------------------------------------------------------
(* Supervisor lifecycle (store.js 170-217) *)

\* Math.floor((Date.now() - (startedAt?.getTime() || Date.now())) / 1000), >= 0
liveDelta(sup, t) ==
  LET from == IF sup.startedAt = NoTime \/ sup.startedAt = 0 THEN t ELSE sup.startedAt
      d == (t - from) \div 1000
  IN IF d > 0 THEN d ELSE 0

resumed(sup, t) == [sup EXCEPT !.startedAt = t, !.status = "running"]

started(sup, t) == [sup EXCEPT !.status = "running", !.startedAt = t]

\* faulty variant: stop() that forgets the time run since the last start
stopped_dropsLive(sup, t) ==
  [sup EXCEPT !.startedAt = NoTime, !.status = "stopped"]

stopped(sup, t) ==
  [sup EXCEPT !.runtimeSec = IF sup.status \in {"running", "paused"}
                             THEN @ + liveDelta(sup, t) ELSE @,
              !.startedAt = NoTime,
              !.status = "stopped"]

\* faulty variant: pause() that books the runtime but keeps the status
paused_keepsStatus(sup, t) ==
  [sup EXCEPT !.runtimeSec = @ + liveDelta(sup, t), !.startedAt = NoTime]

paused(sup, t) ==
  [sup EXCEPT !.runtimeSec = @ + liveDelta(sup, t),
              !.startedAt = NoTime,
              !.status = "paused"]

Start ==
  /\ Env
  /\ IF supervisor.status = "running"
     THEN /\ lastRet' = "Already running"
          /\ UNCHANGED <<supervisor, tasks>>
     ELSE IF supervisor.status = "paused"
     THEN /\ supervisor' = resumed(supervisor, now)
          /\ tasks' = Append(tasks, NewTask("ensureRun", "eA", NoEvt, 0))
          /\ lastRet' = "Resumed"
     ELSE /\ supervisor' = started(supervisor, now)
          /\ tasks' = Append(tasks, NewTask("start", "eA", NoEvt, 0))
          /\ lastRet' = "OK: started"
  /\ UNCHANGED <<now, processed, policy, notified, autoEnabled, agents, agentC, tower,
                 lastState, emitter, buffer, handled, published,
                 subscribers, perSite>>

Stop ==
  /\ Env
  /\ supervisor' = stopped(supervisor, now)
  /\ tasks' = Append(tasks, NewTask("ensureStop", "sA", NoEvt, 0))
  /\ lastRet' = "OK: stopped"
  /\ UNCHANGED <<now, processed, policy, notified, autoEnabled, agents, agentC, tower,
                 lastState, emitter, buffer, handled, published,
                 subscribers, perSite>>

Pause ==
  /\ Env
  /\ IF supervisor.status # "running"
     THEN /\ lastRet' = "Not running"
          /\ UNCHANGED supervisor
     ELSE /\ supervisor' = paused(supervisor, now)
          /\ lastRet' = "OK: paused"
  /\ UNCHANGED <<now, processed, policy, notified, autoEnabled, agents, agentC, tower,
                 lastState, emitter, buffer, tasks, handled, published,
                 subscribers, perSite>>

Resume ==
  /\ Env
  /\ IF supervisor.status # "paused"
     THEN /\ lastRet' = "Not paused"
          /\ UNCHANGED <<supervisor, tasks>>
     ELSE /\ supervisor' = resumed(supervisor, now)
          /\ tasks' = Append(tasks, NewTask("ensureRun", "eA", NoEvt, 0))
          /\ lastRet' = "OK: resumed"
  /\ UNCHANGED <<now, processed, policy, notified, autoEnabled, agents, agentC, tower,
                 lastState, emitter, buffer, handled, published,
                 subscribers, perSite>>

-----------------------------------------------------------------------------
(* Operator requests and the clock *)

\* policy/store.js setPolicy with a valid waysOfWorking patch
SetPolicy ==
  /\ Env
  /\ \E wow \in WowPatches : policy' = setPolicyWow(policy, wow)
  /\ notified' = Append(notified, policy'.version)
  /\ UNCHANGED <<now, supervisor, lastRet, processed, autoEnabled, agents,
                 agentC, tower, lastState, emitter, buffer, tasks, handled, published,
                 subscribers, perSite>>

\* pipeline.js setAutoEnabled(flag)
SetAutoEnabled ==
  /\ Env
  /\ \E flag \in BOOLEAN : autoEnabled' = flag
  /\ UNCHANGED <<now, supervisor, lastRet, processed, policy, notified, agents, agentC,
                 tower, lastState, emitter, buffer, tasks, handled, published,
                 subscribers, perSite>>

Tick ==
  /\ Env
  /\ now' = now + TickMs
  /\ UNCHANGED <<supervisor, lastRet, processed, policy, notified, autoEnabled, agents,
                 agentC, tower, lastState, emitter, buffer, tasks, handled, published,
                 subscribers, perSite>>

-----------------------------------------------------------------------------
(* Incident Bus channels *)

\* handleEvent up to its first await (store.js 288-316)
\* faulty variant: a handler that never consults the ledger
isDuplicate_never(led, evt) == FALSE

isDuplicate(led, evt) == Has(led, eventId(evt))

\* what one invocation of handleEvent met on entry
Delivery(evt) == [evt |-> evt, status |-> supervisor.status,
                  dup |-> isDuplicate(processed, evt)]

ledgerAfter(led, evt, t) ==
  IF isDuplicate(led, evt) THEN led ELSE remember(led, eventId(evt), t)

\* faulty variant: a handler that does not look at the Supervisor's status
orchestrates_anyStatus(led, sup, evt) ==
  /\ ~isDuplicate(led, evt)
  /\ siteIdOf(evt) # ""
  /\ evt.type \in Actionable

orchestrates(led, sup, evt) ==
  /\ ~isDuplicate(led, evt)
  /\ sup.status = "running"
  /\ siteIdOf(evt) # ""
  /\ evt.type \in Actionable

\* incidentBus.emit('bus.event', evt): the Supervisor's listener (store.js 414)
Deliver(evt) ==
  /\ processed' = ledgerAfter(processed, evt, now)
  /\ tasks' = IF orchestrates(processed, supervisor, evt)
              THEN Append(tasks, NewTask("handle", "A", evt, 0))
              ELSE tasks
  /\ handled' = Append(handled, Delivery(evt))

EmitBusEvent ==
  /\ Env
  /\ \E evt \in BusEvents : Deliver(evt)
  /\ UNCHANGED <<now, supervisor, lastRet, policy, notified, autoEnabled, agents, agentC,
                 tower, lastState, emitter, buffer, published,
                 subscribers, perSite>>

PubEvents == { Ev("alarm.raised", "S1", "MainsFailure", NoTime, 2) }

\* the ring listener of channel 'event' (incidentBus.js)
\* faulty variant: the oldest event is never dropped
ringPush_noShift(buf, evt) == Append(buf, evt)

ringPush(buf, evt) ==
  LET b == Append(buf, evt) IN
  IF Len(b) > MAX_EVENTS THEN Tail(b) ELSE b

\* tower/bridge.js emitBusEvent for a snapshot
StateUpdate(t) == Ev("state.update", "all", "", NoTime, t)

-----------------------------------------------------------------------------
(* The Delta Emitter (bus/deltaEmitter.js).  A state object is its `sites`  *)
(* in key order; a JavaScript object or Set is the sequence of its entries  *)
(* in insertion order.                                                      *)

Undefined == "undefined"

\* faulty variant: every element is kept, repeated ones too
setOf_keepsAll(arr) == arr

\* new Set(arr): the elements in insertion order, each once
setOf(arr) ==
  LET RECURSIVE add(_, _)
      add(set, rest) ==
        IF rest = <<>> THEN set
        ELSE add(IF InSeq(Head(rest), set) THEN set ELSE Append(set, Head(rest)),
                 Tail(rest))
  IN add(<<>>, arr)

extractAlarmsBySite(state) ==
  [i \in 1..Len(state.sites) |->
     [siteId |-> state.sites[i].siteId, alarms |-> setOf(state.sites[i].alarms)]]

extractServiceBySite(state) ==
  [i \in 1..Len(state.sites) |->
     [siteId |-> state.sites[i].siteId,
      antenna1 |-> state.sites[i].antenna1,
      antenna2 |-> state.sites[i].antenna2]]

\* the envelope of an alarm.raised / alarm.cleared emission
AlarmEvent(type, siteId, alarm, t, bootstrap) ==
  [type |-> type, siteId |-> siteId, alarm |-> alarm, ts |-> t,
   source |-> "delta", bootstrap |-> bootstrap]

\* the envelope of a service.changed emission
ServiceChanged(siteId, antenna, from, to, t) ==
  [type |-> "service.changed", siteId |-> siteId, antenna |-> antenna,
   from |-> from, to |-> to, ts |-> t, source |-> "delta"]

\* the first-snapshot loop: every current alarm as raised, bootstrap: true
RECURSIVE raisedNow(_, _)
raisedNow(m, t) ==
  IF m = <<>> THEN <<>>
  ELSE [i \in 1..Len(Head(m).alarms) |->
          AlarmEvent("alarm.raised", Head(m).siteId, Head(m).alarms[i], t, TRUE)]
         \o raisedNow(Tail(m), t)

\* faulty variant: the current alarms are emitted whatever the option says
firstIngest_always(e, curAlarms, t) == raisedNow(curAlarms, t)

\* what the first snapshot emits: `if (this.bootstrapEmit) { ... }`
firstIngest(e, curAlarms, t) ==
  IF e.bootstrapEmit THEN raisedNow(curAlarms, t) ELSE <<>>

\* ingest(newState) at time t: the envelopes emitted on 'event', in order,
\* and the emitter afterwards
ingest(e, newState, t) ==
  LET curAlarms == extractAlarmsBySite(newState)
      curService == extractServiceBySite(newState)
      stored == [e EXCEPT !.lastAlarmsBySite = Obj(curAlarms),
                          !.lastServiceBySite = Obj(curService)]
      prevAlarms == e.lastAlarmsBySite.entries
      prevService == e.lastServiceBySite.entries
      keys(m) == [i \in 1..Len(m) |-> m[i].siteId]
      has(m, id) == \E i \in 1..Len(m) : m[i].siteId = id
      at(m, id) == m[CHOOSE i \in 1..Len(m) : m[i].siteId = id]
      alarmsOf(m, id) == IF has(m, id) THEN at(m, id).alarms ELSE <<>>
      serviceOf(m, id, a) == IF has(m, id) THEN at(m, id)[a] ELSE Undefined
      each(type, siteId, alarms, boot) ==
        [i \in 1..Len(alarms) |-> AlarmEvent(type, siteId, alarms[i], t, boot)]
      RECURSIVE alarmDeltas(_)
      alarmDeltas(ids) ==
        IF ids = <<>> THEN <<>>
        ELSE LET prevSet == alarmsOf(prevAlarms, Head(ids))
                 nextSet == alarmsOf(curAlarms, Head(ids))
             IN each("alarm.raised", Head(ids),
                     SelectSeq(nextSet, LAMBDA a : ~InSeq(a, prevSet)), FALSE)
                  \o each("alarm.cleared", Head(ids),
                          SelectSeq(prevSet, LAMBDA a : ~InSeq(a, nextSet)), FALSE)
                  \o alarmDeltas(Tail(ids))
      change(id, a) ==
        LET from == serviceOf(prevService, id, a)
            to == serviceOf(curService, id, a)
        IN IF from # to THEN <<ServiceChanged(id, a, from, to, t)>> ELSE <<>>
      RECURSIVE serviceDeltas(_)
      serviceDeltas(ids) ==
        IF ids = <<>> THEN <<>>
        ELSE change(Head(ids), "antenna1") \o change(Head(ids), "antenna2")
               \o serviceDeltas(Tail(ids))
  IN IF e.lastAlarmsBySite.null \/ e.lastServiceBySite.null
       THEN [events |-> firstIngest(e, curAlarms, t), emitter |-> stored]
       ELSE [events |-> alarmDeltas(setOf(keys(prevAlarms) \o keys(curAlarms)))
                          \o serviceDeltas(setOf(keys(prevService) \o keys(curService))),
             emitter |-> stored]

-----------------------------------------------------------------------------
(* Agent A: batch correlate (agents/correlationAgent.js).  A batch event   *)
(* is {siteId, type, alarm, timestamp}; "" stands for an absent string.    *)

windowMs == 5 * 60 * 1000

\* e.type || e.alarm || 'unknown'
batchType(e) ==
  IF e.type # "" THEN e.type ELSE IF e.alarm # "" THEN e.alarm ELSE "unknown"

\* faulty variant: the window excludes its upper end
withinWindow_exclusive(t, last, W) == t - last < W

\* t - last <= WINDOW_MS
withinWindow(t, last, W) == t - last <= W

\* cur = { start, end, count: 1, types: new Set([...]), events: [ev] }
startIncident(siteId, ev) ==
  [siteId |-> siteId, start |-> ev.timestamp, end |-> ev.timestamp, count |-> 1,
   types |-> <<IF ev.type # "" THEN ev.type ELSE ev.alarm>>, events |-> <<ev>>]

\* faulty variant: the end of the incident stays where it was
growIncident_keepsEnd(cur, ev) ==
  [cur EXCEPT !.count = @ + 1,
              !.types = setOf(Append(@, IF ev.type # "" THEN ev.type ELSE ev.alarm)),
              !.events = Append(@, ev)]

\* cur.end = ev.timestamp; cur.count++; cur.types.add(...); cur.events.push(ev)
growIncident(cur, ev) ==
  [cur EXCEPT !.end = ev.timestamp, !.count = @ + 1,
              !.types = setOf(Append(@, IF ev.type # "" THEN ev.type ELSE ev.alarm)),
              !.events = Append(@, ev)]

\* correlate(events) under policy p: the incidents, in order
correlate(p, events, W) ==
  LET filtered == SelectSeq(events,
                    LAMBDA e : correlateKeeps(p, e.siteId, batchType(e)))
      sites == setOf([i \in 1..Len(filtered) |-> filtered[i].siteId])
      \* list.sort by timestamp (stable)
      RECURSIVE insert(_, _)
      insert(sorted, e) ==
        IF sorted = <<>> THEN <<e>>
        ELSE IF sorted[Len(sorted)].timestamp <= e.timestamp THEN Append(sorted, e)
        ELSE Append(insert(SubSeq(sorted, 1, Len(sorted) - 1), e), sorted[Len(sorted)])
      RECURSIVE sort(_, _)
      sort(sorted, rest) ==
        IF rest = <<>> THEN sorted ELSE sort(insert(sorted, Head(rest)), Tail(rest))
      RECURSIVE windows(_, _, _)
      windows(site, list, cur) ==
        IF list = <<>> THEN <<cur>>
        ELSE IF withinWindow(Head(list).timestamp, cur.end, W)
          THEN windows(site, Tail(list), growIncident(cur, Head(list)))
          ELSE <<cur>> \o windows(site, Tail(list), startIncident(site, Head(list)))
      ofSite(site) ==
        LET list == sort(<<>>, SelectSeq(filtered, LAMBDA e : e.siteId = site))
        IN windows(site, Tail(list), startIncident(site, Head(list)))
      RECURSIVE all(_)
      all(ids) == IF ids = <<>> THEN <<>> ELSE ofSite(Head(ids)) \o all(Tail(ids))
  IN [incidents |-> all(sites)]

\* number of incidents for the Supervisor's one-event batch
correlateOne(p, siteId, typ) ==
  Len(correlate(p, <<[siteId |-> siteId, type |-> typ, alarm |-> "",
                      timestamp |-> 0]>>, windowMs).incidents)

-----------------------------------------------------------------------------
(* Agent A: streaming correlation (_onIncident and its primitives).  The   *)
(* incidents of a site are `open` (empty, or the one open incident) and    *)
(* `closed`; st is the pair of perSite and the Supervisor the notes go to. *)

\* evt.timestamp, evt.alarm and evt.state.sites[evt.siteId] of an envelope
\* that may lack them
timestampOf(evt) == IF "timestamp" \in DOMAIN evt THEN evt.timestamp ELSE NoTime

alarmOf(evt) == IF "alarm" \in DOMAIN evt THEN evt.alarm ELSE ""

stateOf(evt) == IF "state" \in DOMAIN evt THEN evt.state ELSE NoSite

_newIncident(siteId, evt) ==
  [siteId |-> siteId, start |-> timestampOf(evt), end |-> timestampOf(evt),
   count |-> 1,
   types |-> <<IF alarmOf(evt) # "" THEN alarmOf(evt) ELSE evt.type>>,
   events |-> <<evt>>]

_extend(inc, evt) ==
  [inc EXCEPT !.end = timestampOf(evt),
              !.count = @ + 1,
              !.types = setOf(Append(@, IF alarmOf(evt) # "" THEN alarmOf(evt)
                                        ELSE evt.type)),
              !.events = Append(@, evt)]

_closeOpenIncident(st, siteId, reason) ==
  IF siteId \notin DOMAIN st.perSite \/ st.perSite[siteId].open = <<>> THEN st
  ELSE LET closed == st.perSite[siteId].open[1]
           out == [siteId |-> siteId, start |-> closed.start, end |-> closed.end,
                   count |-> closed.count, types |-> closed.types,
                   events |-> closed.events, reason |-> reason]
       IN [perSite |-> [st.perSite EXCEPT ![siteId] =
                          [open |-> <<>>, closed |-> Append(@.closed, out)]],
           sup |-> note(st.sup, Note("Correlation: closed incident", <<>>, siteId))]

\* s.open = this._newIncident(siteId, evt); this._notifyStart(s.open)
_notifyStart(st, siteId, evt) ==
  [perSite |-> [st.perSite EXCEPT ![siteId].open = <<_newIncident(siteId, evt)>>],
   sup |-> note(st.sup, Note("Correlation: started incident", <<>>, siteId))]

\* one registered handler receiving evt at time t, the agent's status being
\* `status` and the policy p
_onIncident(st, evt, t, p, status) ==
  LET siteId == IF evt.siteId # "" THEN evt.siteId ELSE "unknown"
      alarm == IF alarmOf(evt) # "" THEN alarmOf(evt) ELSE evt.type
      snap == stateOf(evt)
      s == st.perSite[siteId]
      merged == IF s.open = <<>> THEN _notifyStart(st, siteId, evt)
                ELSE IF s.open[1].end # NoTime /\ withinWindow(t, s.open[1].end, windowMs)
                THEN [st EXCEPT !.perSite[siteId].open = <<_extend(s.open[1], evt)>>]
                ELSE _notifyStart(_closeOpenIncident(st, siteId, "window_elapsed"),
                                  siteId, evt)
      types == merged.perSite[siteId].open[1].types
  IN IF status # "running" THEN st
     ELSE IF evt.type = "state.update"
     THEN IF snap.present /\ snap.siteAlive /\ snap.mains = "on"
          THEN _closeOpenIncident(st, siteId, "service_restored")
          ELSE st
     ELSE IF evt.type \notin {"alarm.raised", "alarm.cleared"} THEN st
     ELSE IF ~correlateKeeps(p, siteId, alarm) \/ siteId \notin DOMAIN st.perSite THEN st
     ELSE IF /\ evt.type = "alarm.cleared"
             /\ ~\E k \in DOMAIN types : isCriticalAlarm(types[k])
     THEN _closeOpenIncident(merged, siteId, "alarm_cleared")
     ELSE merged

-----------------------------------------------------------------------------
(* Incident Bus, channel 'event' (bus/incidentBus.js): the ring, the SSE    *)
(* clients and the handlers Agent A registered.                            *)

\* faulty variant: the first write that throws ends the loop
sseWrite_abortOnThrow(subs, evt) ==
  [id \in SubIds |->
     IF /\ subs[id].attached /\ ~subs[id].broken
        /\ ~\E other \in SubIds :
              other < id /\ subs[other].attached /\ subs[other].broken
     THEN [subs[id] EXCEPT !.received = Append(@, evt)]
     ELSE subs[id]]

\* for (const res of subscribers) { try { res.write(line) } catch {} }
sseWrite(subs, evt) ==
  [id \in SubIds |->
     IF subs[id].attached /\ ~subs[id].broken
     THEN [subs[id] EXCEPT !.received = Append(@, evt)]
     ELSE subs[id]]

\* the state the listeners of channel 'event' work on
Bus == [buffer |-> buffer, subscribers |-> subscribers, perSite |-> perSite,
        sup |-> supervisor]

\* incidentBus.emit('event', evt): the ring listener, registered first, then
\* each handler Agent A registered (ag.hA of them)
onEvent(bus, evt, t, p, ag) ==
  LET RECURSIVE run(_, _)
      run(st, n) == IF n = 0 THEN st
                    ELSE run(_onIncident(st, evt, t, p, ag.A), n - 1)
      st1 == run([perSite |-> bus.perSite, sup |-> bus.sup], ag.hA)
  IN [buffer |-> ringPush(bus.buffer, evt),
      subscribers |-> sseWrite(bus.subscribers, evt),
      perSite |-> st1.perSite,
      sup |-> st1.sup]

\* incidentBus.emit('event', evt) for each envelope in turn
RECURSIVE emitAll(_, _, _, _, _)
emitAll(bus, evts, t, p, ag) ==
  IF evts = <<>> THEN bus
  ELSE emitAll(onEvent(bus, Head(evts), t, p, ag), Tail(evts), t, p, ag)

\* incidentBus.emit('event', evt): publish(), DeltaEmitter.#emitBoth
Publish ==
  /\ Env
  /\ \E evt \in PubEvents :
       LET b == onEvent(Bus, evt, now, policy, agents) IN
       /\ buffer' = b.buffer
       /\ subscribers' = b.subscribers
       /\ perSite' = b.perSite
       /\ supervisor' = b.sup
       /\ published' = IF supervisor.status = "running"
                       THEN Append(published, evt) ELSE published
  /\ UNCHANGED <<now, lastRet, processed, policy, notified, autoEnabled,
                 agents, agentC, tower, lastState, emitter, tasks, handled>>

\* the state object the simulator serves for site S1
towerState(site) ==
  [sites |-> <<[siteId |-> "S1", alarms |-> simAlarms(site),
                antenna1 |-> site.antenna1, antenna2 |-> site.antenna2]>>]

\* tower/bridge.js: the periodic HTTP refresh got a snapshot: it is cached,
\* fed to the Delta Emitter and announced on channel 'event'
BridgeRefresh ==
  /\ Env
  /\ tower.mode # "down"
  /\ lastState' = tower.site
  /\ LET r == ingest(emitter, towerState(tower.site), now)
         evts == Append(r.events, StateUpdate(now))
         b == emitAll(Bus, evts, now, policy, agents)
     IN /\ emitter' = r.emitter
        /\ buffer' = b.buffer
        /\ subscribers' = b.subscribers
        /\ perSite' = b.perSite
        /\ supervisor' = b.sup
        /\ published' = IF supervisor.status = "running"
                          THEN published \o evts ELSE published
  /\ UNCHANGED <<now, lastRet, processed, policy, notified, autoEnabled,
                 agents, agentC, tower, tasks, handled>>

-----------------------------------------------------------------------------
(* Running a task from the await it is suspended at to its next await *)

Commit(i, c) ==
  /\ tasks' = [tasks EXCEPT ![i] = c.t]
  /\ supervisor' = c.sup
  /\ tower' = c.tower
  /\ agentC' = c.agentC
  /\ agents' = c.agents
  /\ UNCHANGED <<now, lastRet, processed, policy, notified, autoEnabled, lastState, emitter,
                 buffer, handled, published, envCalls,
                 subscribers, perSite>>

CAUSE == "correlated_alarm_cluster"

\* recordIncident up to its await of _fetchSite (rca.js 125-139): the agent is
\* started, and the record is skipped or the dedup memory updated
recordSkips(c, resolution) ==
  recordRejects(c.agentC, siteIdOf(c.t.evt), CAUSE, resolution, now)

recordCall(c, resolution) ==
  [c EXCEPT !.agents.C = "running",
            !.agentC = IF recordSkips(c, resolution) THEN @
                       ELSE _dedup(@, siteIdOf(c.t.evt), CAUSE, resolution, now)]

\* recordIncident after _fetchSite (rca.js 139-168)
recordPush(c, cause, actions, resolution) ==
  LET item == Case(siteIdOf(c.t.evt), cause, actions, resolution,
                   fetchSite(c.tower, siteIdOf(c.t.evt)), now)
      text == IF item.dispatchSuggested THEN "RCA: Dispatch suggested"
              ELSE "RCA: resolved" IN
  [c EXCEPT !.agentC = casebookPush(@, item),
            !.sup = note(c.sup, Note(text, <<>>, item.siteId))]

recordAppend(c, actions, resolution) == recordPush(c, CAUSE, actions, resolution)

\* faulty variant: the HITL branch is taken whatever autoEffective() says
Decide_alwaysHitl(c) ==
  [c EXCEPT !.t = [c.t EXCEPT !.path = "hitl", !.decidedV = policy.version,
                              !.pc = "Bi"]]

\* store.js 348: if (!autoEffective()) ... ; then await lazyAgentB()
Decide(c) ==
  [c EXCEPT !.t = [c.t EXCEPT !.path = IF autoEffective(policy, autoEnabled)
                                       THEN "auto" ELSE "hitl",
                              !.decidedV = policy.version,
                              !.pc = "Bi"]]

\* store.js 316-331
stepA(c) ==
  LET c1 == [c EXCEPT !.agents = startA(@)] IN
  IF correlateOne(policy, siteIdOf(c.t.evt), probeType(c.t.evt)) = 0
  THEN [c1 EXCEPT !.t = Done(c.t)]
  ELSE [c1 EXCEPT !.t = [c.t EXCEPT !.pc = "C1"]]

\* store.js 335-341
stepC1(c) ==
  IF recordSkips(c, "investigating")
  THEN Decide(recordCall(c, "investigating"))
  ELSE [recordCall(c, "investigating") EXCEPT !.t = [c.t EXCEPT !.pc = "C1f"]]

stepC1f(c) == Decide(recordAppend(c, <<>>, "investigating"))

\* store.js 350-353 / 373-378 and mitigateSite up to its first await
\* (troubleshooting.js 196-203)
routed(sup, path) ==
  IF path = "auto" THEN [sup EXCEPT !.tasksRouted = @ + 1] ELSE sup

stepBi(c) ==
  LET c1 == [c EXCEPT !.agents.B = "running",
                      !.sup = routed(c.sup, c.t.path),
                      !.t = [c.t EXCEPT !.mitCalls = @ + 1]] IN
  IF c1.agents.B # "running"
  THEN Return(c1, [NoResult EXCEPT !.kind = "refused", !.error = "Agent not running"])
  ELSE [c1 EXCEPT !.t = [c1.t EXCEPT !.e2e = isE2E(policy), !.pc = "Bf"]]

\* mitigateSite once _fetchSite answered (troubleshooting.js 203-230)
planOrExecute(c, site, e2e) ==
  IF ~site.present
  THEN Return(c, [NoResult EXCEPT !.kind = "refused", !.error = "site_not_found"])
  ELSE IF ~e2e
  THEN Return([c EXCEPT !.sup = note(c.sup, Note("Troubleshooting (HITL): Proposed plan",
                                                 <<>>, siteIdOf(c.t.evt)))],
              [NoResult EXCEPT !.kind = "plan", !.error = "approval_required",
                               !.plan = _buildPlan(site)])
  ELSE NextPlanStep([c EXCEPT !.t = [c.t EXCEPT !.site = site,
                                                !.plan = _buildPlan(site),
                                                !.initial = _detectAlarms(site),
                                                !.idx = 1, !.acts = <<>>]])

\* faulty variant: the mode is taken from the policy as it is when the
\* snapshot arrives, not from the read at entry
stepBf_lateRead(c) == planOrExecute(c, fetchSite(c.tower, siteIdOf(c.t.evt)), isE2E(policy))

stepBf(c) == planOrExecute(c, fetchSite(c.tower, siteIdOf(c.t.evt)), c.t.e2e)

\* store.js 382-399
stepC2(c) ==
  LET r == finalResolution(c.t.res)
      c1 == [recordCall(c, r) EXCEPT !.t = [c.t EXCEPT !.finalRes = r,
                                                       !.finalCalls = @ + 1]] IN
  IF recordSkips(c, r)
  THEN [c1 EXCEPT !.t = Done(c1.t)]
  ELSE [c1 EXCEPT !.t = [c1.t EXCEPT !.pc = "C2f"]]

stepC2f(c) ==
  [recordAppend(c, c.t.res.actionsTaken, c.t.finalRes) EXCEPT
     !.t = Done([c.t EXCEPT !.finalRecorded = TRUE])]

HandlePcs == {"A", "C1", "C1f", "Bi", "Bf", "C2", "C2f"}

\* handleEvent (store.js 287-411), one await at a time
HandleStep(i) ==
  /\ tasks[i].kind = "handle"
  /\ tasks[i].pc \in HandlePcs
  /\ LET c == Cfg(tasks[i])
         pc == tasks[i].pc IN
     Commit(i, CASE pc = "A" -> stepA(c)
                 [] pc = "C1" -> stepC1(c)
                 [] pc = "C1f" -> stepC1f(c)
                 [] pc = "Bi" -> stepBi(c)
                 [] pc = "Bf" -> stepBf(c)
                 [] pc = "C2" -> stepC2(c)
                 [] pc = "C2f" -> stepC2f(c))

-----------------------------------------------------------------------------
(* mitigateSite's E2E execution and _healRadio, one request at a time *)

sent(c, tw) == [c EXCEPT !.tower = tw, !.t = [c.t EXCEPT !.cmds = @ + 1]]

\* _applyStep 'power.on' / 'rru.off' (troubleshooting.js 128-141, 226-230)
stepX(c, tw) ==
  LET step == c.t.plan[c.t.idx]
      c1 == IF step.action = "power.on"
            THEN [c EXCEPT !.sup = note(c.sup, Note("Troubleshooting: powered ON",
                                                    <<>>, step.siteId))]
            ELSE c IN
  NextPlanStep([sent(c1, tw) EXCEPT !.t = [sent(c1, tw).t EXCEPT
                                             !.acts = Append(@, step),
                                             !.idx = @ + 1]])

\* one pass of the alarm sweep after its re-read (troubleshooting.js 245-267)
SweepBody(c) ==
  LET alarms == _detectAlarms(c.t.site)
      radio == radioAlarms(c.t.site)
      mainsOff == InSeq("Mains.Off", alarms)
      siteDown == InSeq("Site.Down", alarms) IN
  IF ~mainsOff /\ ~siteDown /\ Len(radio) = 0
  THEN [c EXCEPT !.t = [c.t EXCEPT !.pc = "W4", !.tries = 2]]
  ELSE NextRadio([c EXCEPT !.t = [c.t EXCEPT !.radio = radio, !.mainsOff = mainsOff]])

\* what mitigateSite does with the site a _waitAndGet gave it
afterWait(c) ==
  CASE c.t.pc = "W1" -> AfterSettle(c)
    [] c.t.pc = "W2" -> StartPass(c)
    [] c.t.pc = "W3" -> SweepBody(c)
    [] c.t.pc = "W4" -> Finish(c)

\* faulty variant: a _waitAndGet without a cap on its tries
stepW_retriesForever(c) ==
  LET r == fetchSite(c.tower, siteIdOf(c.t.evt)) IN
  IF r.present THEN afterWait([c EXCEPT !.t = [c.t EXCEPT !.site = r]])
  ELSE c

\* site = await _waitAndGet(siteId, tries) || site
stepW(c) ==
  LET r == fetchSite(c.tower, siteIdOf(c.t.evt)) IN
  IF r.present THEN afterWait([c EXCEPT !.t = [c.t EXCEPT !.site = r]])
  ELSE IF c.t.tries <= 1 THEN afterWait(c)
  ELSE [c EXCEPT !.t = [c.t EXCEPT !.tries = @ - 1]]

\* the sweep's power retry (troubleshooting.js 262-267)
stepSpow(c) ==
  StartPass([sent(c, simPowerOn(c.tower)) EXCEPT
               !.t = [sent(c, simPowerOn(c.tower)).t EXCEPT
                        !.acts = Append(@, Step("power.on", ""))]])

MitigatePcs == {"Xpow", "Xoff", "W1", "W2", "W3", "W4", "Spow"}

MitigateStep(i) ==
  /\ tasks[i].kind = "handle"
  /\ tasks[i].pc \in MitigatePcs
  /\ LET c == Cfg(tasks[i])
         pc == tasks[i].pc IN
     Commit(i, CASE pc = "Xpow" -> stepX(c, simPowerOn(c.tower))
                 [] pc = "Xoff" -> stepX(c, simRru(c.tower, c.t.ant, "off"))
                 [] pc \in {"W1", "W2", "W3", "W4"} -> stepW(c)
                 [] pc = "Spow" -> stepSpow(c))

\* _healRadio (troubleshooting.js 158-189)
stepHread(c) ==
  LET s == fetchSite(c.tower, siteIdOf(c.t.evt)) IN
  IF s.present /\ s.mains = "on" /\ ~s.siteAlive
  THEN [c EXCEPT !.t = [c.t EXCEPT !.hs = s, !.tries = 3, !.pc = "Hwait"]]
  ELSE HealCheck(c, s)

stepHwait(c) ==
  LET r == fetchSite(c.tower, siteIdOf(c.t.evt)) IN
  IF r.present THEN HealCheck(c, r)
  ELSE IF c.t.tries <= 1 THEN HealCheck(c, c.t.hs)
  ELSE [c EXCEPT !.t = [c.t EXCEPT !.tries = @ - 1]]

\* faulty variant: a loop without a cap on its attempts
stepHread2_noCap(c) ==
  LET s == fetchSite(c.tower, siteIdOf(c.t.evt)) IN
  IF svcOf(s, c.t.ant) = "Available" THEN HealReturn(healed(c, "ok"))
  ELSE [c EXCEPT !.t = [c.t EXCEPT !.attempt = @ + 1, !.hs = NoSite, !.pc = "Hon",
                                   !.heals[Len(c.t.heals)].attempts = @ + 1]]

stepHread2(c) ==
  LET s == fetchSite(c.tower, siteIdOf(c.t.evt)) IN
  IF svcOf(s, c.t.ant) = "Available" THEN HealReturn(healed(c, "ok"))
  ELSE IF c.t.attempt < MAX_RRU_ATTEMPTS
  THEN [c EXCEPT !.t = [c.t EXCEPT !.attempt = @ + 1, !.hs = NoSite, !.pc = "Hon",
                                   !.heals[Len(c.t.heals)].attempts = @ + 1]]
  ELSE HealReturn(healed(c, "rru_unavailable"))

HealPcs == {"Hon", "Hread", "Hwait", "Hoff", "Hon2", "Hread2"}

HealRadioStep(i) ==
  /\ tasks[i].kind = "handle"
  /\ tasks[i].pc \in HealPcs
  /\ LET c == Cfg(tasks[i])
         pc == tasks[i].pc
         to(p, tw) == [sent(c, tw) EXCEPT
                         !.t = [sent(c, tw).t EXCEPT
                                  !.pc = p, !.heals[Len(c.t.heals)].cmds = @ + 1]] IN
     Commit(i, CASE pc = "Hon" -> to("Hread", simRru(c.tower, c.t.ant, "on"))
                 [] pc = "Hread" -> stepHread(c)
                 [] pc = "Hwait" -> stepHwait(c)
                 [] pc = "Hoff" -> to("Hon2", simRru(c.tower, c.t.ant, "off"))
                 [] pc = "Hon2" -> to("Hread2", simRru(c.tower, c.t.ant, "on"))
                 [] pc = "Hread2" -> stepHread2(c))

-----------------------------------------------------------------------------
(* ensureAgentsRunning / ensureAgentsStopped (store.js 131-140) and the    *)
(* cold-start sweep (store.js 143-168)                                     *)

EnsurePcs == {"eA", "eB", "eC"}

ensureRunning(c) ==
  LET pc == c.t.pc IN
  IF pc = "eA" THEN [c EXCEPT !.agents = startA(@), !.t = [c.t EXCEPT !.pc = "eB"]]
  ELSE IF pc = "eB" THEN [c EXCEPT !.agents.B = "running", !.t = [c.t EXCEPT !.pc = "eC"]]
  ELSE [c EXCEPT !.agents.C = "running",
                 !.t = IF c.t.kind = "start" THEN [c.t EXCEPT !.pc = "snap"]
                       ELSE Done(c.t)]

EnsureRunningStep(i) ==
  /\ tasks[i].kind \in {"start", "ensureRun"}
  /\ tasks[i].pc \in EnsurePcs
  /\ Commit(i, ensureRunning(Cfg(tasks[i])))

ensureStopped(c) ==
  LET pc == c.t.pc IN
  IF pc = "sA" THEN [c EXCEPT !.agents.A = "stopped", !.t = [c.t EXCEPT !.pc = "sB"]]
  ELSE IF pc = "sB" THEN [c EXCEPT !.agents.B = "stopped", !.t = [c.t EXCEPT !.pc = "sC"]]
  ELSE [c EXCEPT !.agents.C = "stopped", !.t = Done(c.t)]

EnsureStoppedStep(i) ==
  /\ tasks[i].kind = "ensureStop"
  /\ tasks[i].pc \in {"sA", "sB", "sC"}
  /\ Commit(i, ensureStopped(Cfg(tasks[i])))

\* faulty variant: a sweep that stops after the first alarm of the first site
sweepItems_firstOnly(snap) ==
  IF snap.sites = <<>> \/ Head(snap.sites).alarms = <<>> THEN <<>>
  ELSE <<[siteId |-> Head(snap.sites).siteId, alarm |-> Head(Head(snap.sites).alarms)]>>

\* Object.entries(sites) x site.alarms, in order
sweepItems(snap) ==
  LET RECURSIVE pairs(_, _)
      pairs(siteId, alarms) ==
        IF alarms = <<>> THEN <<>>
        ELSE <<[siteId |-> siteId, alarm |-> Head(alarms)]>> \o pairs(siteId, Tail(alarms))
      RECURSIVE over(_)
      over(sites) ==
        IF sites = <<>> THEN <<>>
        ELSE pairs(Head(sites).siteId, Head(sites).alarms) \o over(Tail(sites))
  IN over(snap.sites)

synthesized(item, t) == Ev("alarm.raised", item.siteId, item.alarm, t, NoTime)

\* the sweep's loop from the head of `t.items`: await handleEvent({...})
Feed(i, t) ==
  IF t.items = <<>>
  THEN /\ tasks' = [tasks EXCEPT ![i] = Done(t)]
       /\ UNCHANGED <<processed, handled>>
  ELSE LET evt == synthesized(Head(t.items), now)
           t1 == [t EXCEPT !.items = Tail(@), !.fed = Append(@, evt)] IN
       /\ processed' = ledgerAfter(processed, evt, now)
       /\ handled' = Append(handled, Delivery(evt))
       /\ tasks' = IF orchestrates(processed, supervisor, evt)
                   THEN Append([tasks EXCEPT ![i] = [t1 EXCEPT !.pc = "wait",
                                                               !.child = Len(tasks) + 1]],
                               NewTask("handle", "A", evt, i))
                   ELSE [tasks EXCEPT ![i] = [t1 EXCEPT !.pc = "feed"]]

ColdStartSweepStep(i) ==
  /\ tasks[i].kind = "start"
  /\ tasks[i].pc \in {"snap", "feed", "wait"}
  /\ LET t == tasks[i]
         snap == getTowerSnapshot(lastState, tower) IN
     IF t.pc = "snap"
     THEN IF snap.ok THEN Feed(i, [t EXCEPT !.items = sweepItems(snap),
                                            !.swept = sweepItems(snap)])
          ELSE /\ tasks' = [tasks EXCEPT ![i] = Done(t)]
               /\ UNCHANGED <<processed, handled>>
     ELSE IF t.pc = "feed" THEN Feed(i, t)
     ELSE /\ tasks[t.child].pc = "done"
          /\ Feed(i, [t EXCEPT !.child = 0])
  /\ UNCHANGED <<now, supervisor, lastRet, policy, notified, autoEnabled, agents, agentC,
                 tower, lastState, emitter, buffer, published, envCalls,
                 subscribers, perSite>>

-----------------------------------------------------------------------------

Next ==
  \/ Start
  \/ Stop
  \/ Pause
  \/ Resume
  \/ SetPolicy
  \/ SetAutoEnabled
  \/ Tick
  \/ EmitBusEvent
  \/ Publish
  \/ BridgeRefresh
  \/ \E i \in DOMAIN tasks : EnsureRunningStep(i)
  \/ \E i \in DOMAIN tasks : EnsureStoppedStep(i)
  \/ \E i \in DOMAIN tasks : ColdStartSweepStep(i)
  \/ \E i \in DOMAIN tasks : HandleStep(i)
  \/ \E i \in DOMAIN tasks : MitigateStep(i)
  \/ \E i \in DOMAIN tasks : HealRadioStep(i)

Spec == Init /\ [][Next]_vars

-----------------------------------------------------------------------------
(* Properties *)

HandleTasks == {i \in DOMAIN tasks : tasks[i].kind = "handle"}

InProgress == {i \in HandleTasks : tasks[i].pc # "done"}

Last(s) == s[Len(s)]

\* a step in which handleEvent was entered
Delivered == Len(handled') = Len(handled) + 1

\* C1: orchestration is driven at most once per event id: the id is in the
\* ledger as soon as the first delivery has been taken, and a later delivery
\* of an id that is in the ledger starts no orchestration, invokes no agent
\* and leaves the Supervisor (status, tasksRouted, approvals) untouched.
C1_AtMostOncePerId ==
  /\ [](\A i, j \in HandleTasks :
          eventId(tasks[i].evt) = eventId(tasks[j].evt) => i = j)
  /\ [](\A k \in DOMAIN handled : Has(processed, eventId(handled[k].evt)))
  /\ [][(Delivered /\ Has(processed, eventId(Last(handled').evt)))
        => /\ HandleTasks' = HandleTasks
           /\ UNCHANGED <<supervisor, processed, agents, agentC, tower>>]_vars

\* an event was orchestrated and the same id was delivered again later
C1_Witness ==
  \E k, l \in DOMAIN handled :
    /\ k < l
    /\ eventId(handled[k].evt) = eventId(handled[l].evt)
    /\ \E i \in HandleTasks : eventId(tasks[i].evt) = eventId(handled[k].evt)

\* C2: event handling is strictly serialized: at no time are two handleEvent
\* invocations in progress at once.
C2_Serialized == Cardinality(InProgress) <= 1

\* C3: every event emitted on the Incident Bus while the Supervisor is
\* running is delivered to handleEvent, in publication order.
RECURSIVE IsSubSeq(_, _)
IsSubSeq(a, b) ==
  IF a = <<>> THEN TRUE
  ELSE IF b = <<>> THEN FALSE
  ELSE IF Head(a) = Head(b).evt THEN IsSubSeq(Tail(a), Tail(b))
  ELSE IsSubSeq(a, Tail(b))

C3_PublishedReachSupervisor == IsSubSeq(published, handled)

\* C4: on the HITL path (autoEffective false when the path was chosen) power
\* and rru commands are sent only by a mitigateSite that read E2E automation
\* at its entry, that is only after a policy change made while the handling
\* was suspended; with the policy unchanged since the choice (whatever the
\* toggle did) no command is sent.
C4_HitlCommandsOnlyAfterPolicyChange ==
  \A i \in HandleTasks :
    (tasks[i].path = "hitl" /\ tasks[i].cmds > 0)
      => (tasks[i].e2e /\ policy.version > tasks[i].decidedV)

\* a handling that chose the HITL path and yet commanded the simulator
C4_Witness ==
  \E i \in HandleTasks : tasks[i].path = "hitl" /\ tasks[i].cmds > 0

\* C4 as stated: no command is sent during a handling that chose the HITL
\* path, whatever was changed while it was suspended.
C4_NoCommandOnHitlPath ==
  \A i \in HandleTasks : tasks[i].path = "hitl" => tasks[i].cmds = 0

\* C5: whenever mitigateSite returned approval_required to a handling, that
\* handling enqueued one approval whose actions are the returned plan, on
\* either path.
C5_ApprovalForEveryPlan ==
  \A i \in HandleTasks :
    (tasks[i].pc = "done" /\ tasks[i].res.error = "approval_required")
      => \E k \in DOMAIN supervisor.approvals :
           /\ supervisor.approvals[k].id = idString(tasks[i].approval)
           /\ supervisor.approvals[k].actions = tasks[i].res.plan

\* C6: in HITL mode a mains outage raising MainsFailure and ServiceUnavailable
\* on one site results in exactly one pending approval for the site (with
\* the plan power.on, rru.ensure a1, rru.ensure a2).
OutageAlarmsOnly ==
  /\ \A k \in DOMAIN handled :
       /\ handled[k].evt.type = "alarm.raised"
       /\ handled[k].evt.siteId = "S1"
       /\ handled[k].evt.alarm \in {"MainsFailure", "ServiceUnavailable"}
  /\ \A k, l \in DOMAIN handled :
       handled[k].evt.alarm = handled[l].evt.alarm => k = l

OutagePlan == <<Step("power.on", ""), Step("rru.ensure", "a1"), Step("rru.ensure", "a2")>>

C6_OneApprovalPerOutage ==
  ( /\ tower = [site |-> Outage, mode |-> "ok"]
    /\ policy = DEFAULT_POLICY
  /\ notified = <<>>
    /\ \A i \in HandleTasks : tasks[i].path # "auto"
    /\ OutageAlarmsOnly )
  => /\ Len(supervisor.approvals) <= 1
     /\ \A k \in DOMAIN supervisor.approvals :
          supervisor.approvals[k].actions = OutagePlan

StartMoves ==
  Start => /\ supervisor'.status = "running"
           /\ supervisor.status = "running"
                => (supervisor' = supervisor /\ lastRet' = "Already running")

PauseMoves ==
  Pause => IF supervisor.status = "running"
           THEN supervisor'.status = "paused" /\ lastRet' = "OK: paused"
           ELSE supervisor' = supervisor /\ lastRet' = "Not running"

ResumeMoves ==
  Resume => IF supervisor.status = "paused"
            THEN supervisor'.status = "running" /\ lastRet' = "OK: resumed"
            ELSE supervisor' = supervisor /\ lastRet' = "Not paused"

StopFromActive ==
  (Stop /\ supervisor.status \in {"running", "paused"})
    => supervisor'.status = "stopped"

OnlyLifecycleMoves ==
  supervisor'.status # supervisor.status => (Start \/ Stop \/ Pause \/ Resume)

StopWhenInactive == Stop /\ supervisor.status \in {"idle", "stopped"}

\* C8: the status changes only by start (idle, stopped or paused to running),
\* resume (paused to running), pause (running to paused) and stop (any status
\* to stopped, idle included); start when running, pause when not running and
\* resume when not paused change nothing and say so; stop when idle or stopped
\* leaves startedAt and the accumulated runtime alone, sets the status to
\* stopped and answers 'OK: stopped'.
C8_LifecycleFsm ==
  [][/\ StartMoves /\ PauseMoves /\ ResumeMoves /\ StopFromActive
     /\ OnlyLifecycleMoves
     /\ StopWhenInactive
          => /\ supervisor'.status = "stopped"
             /\ supervisor'.startedAt = supervisor.startedAt
             /\ supervisor'.runtimeSec = supervisor.runtimeSec
             /\ lastRet' = "OK: stopped"]_vars

\* stop() was called on a Supervisor that had never been started
C8_Witness ==
  /\ supervisor.status = "stopped"
  /\ \A i \in DOMAIN tasks : tasks[i].kind # "start"

\* C8 as stated: stop when idle or already stopped is a no-op.
C8_StopWhenInactiveIsNoOp ==
  [][/\ StartMoves /\ PauseMoves /\ ResumeMoves /\ StopFromActive
     /\ OnlyLifecycleMoves
     /\ StopWhenInactive => supervisor' = supervisor]_vars

\* C9: an event delivered while the status is not running starts no
\* orchestration, invokes no agent, enqueues no approval, records no case and
\* leaves tasksRouted alone; its id is in the ledger, so the same id is never
\* orchestrated by a later delivery.
C9_IgnoredWhenNotRunning ==
  /\ [](\A k \in DOMAIN handled :
          handled[k].status # "running"
            => /\ Has(processed, eventId(handled[k].evt))
               /\ ~handled[k].dup
                    => ~\E i \in HandleTasks :
                          eventId(tasks[i].evt) = eventId(handled[k].evt))
  /\ [][(Delivered /\ supervisor.status # "running")
          => /\ HandleTasks' = HandleTasks
             /\ UNCHANGED <<supervisor, agents, agentC, tower>>
             /\ Has(processed', eventId(Last(handled').evt))]_vars

\* an event first delivered while not running came again while running
C9_Witness ==
  \E k, l \in DOMAIN handled :
    /\ k < l
    /\ handled[k].status # "running" /\ ~handled[k].dup
    /\ eventId(handled[l].evt) = eventId(handled[k].evt)
    /\ handled[l].status = "running" /\ handled[l].dup

StartTasks == {i \in DOMAIN tasks : tasks[i].kind = "start"}

\* (siteId, alarm) for every alarm the simulator reports for site S1
AlarmPairs(site) ==
  [k \in 1..Len(simAlarms(site)) |-> [siteId |-> "S1", alarm |-> simAlarms(site)[k]]]

\* C10: a start() from idle or stopped runs one sweep, a start() from paused
\* or running runs none; a sweep takes the (site, alarm) pairs of the snapshot
\* the bridge gives it and feeds one synthesized alarm.raised per pair through
\* handleEvent, in order, awaiting each handling before feeding the next; a
\* fed event that handleEvent takes while running and not as a duplicate is
\* orchestrated.
C10_ColdStartSweep ==
  /\ [](\A i \in StartTasks :
          LET t == tasks[i] IN
          /\ Len(t.fed) <= Len(t.swept)
          /\ \A k \in DOMAIN t.fed :
               /\ t.fed[k].type = "alarm.raised"
               /\ t.fed[k].siteId = t.swept[k].siteId
               /\ t.fed[k].alarm = t.swept[k].alarm
               /\ \E h \in DOMAIN handled :
                    /\ handled[h].evt = t.fed[k]
                    /\ (handled[h].status = "running" /\ ~handled[h].dup)
                         => \E j \in HandleTasks : /\ tasks[j].parent = i
                                                   /\ tasks[j].evt = t.fed[k]
          /\ t.pc = "done" => Len(t.fed) = Len(t.swept)
          /\ \A k, l \in DOMAIN t.swept : t.swept[k] = t.swept[l] => k = l
          /\ Cardinality({j \in InProgress : tasks[j].parent = i}) <= 1)
  /\ [][/\ Cardinality(StartTasks') = Cardinality(StartTasks) +
             (IF Start /\ supervisor.status \in {"idle", "stopped"} THEN 1 ELSE 0)
        /\ \A i \in StartTasks :
             (tasks[i].pc = "snap" /\ tasks'[i].pc # "snap")
               => tasks'[i].swept =
                    IF lastState.present THEN AlarmPairs(lastState)
                    ELSE IF tower.mode # "down" THEN AlarmPairs(tower.site)
                    ELSE <<>>]_vars

\* a sweep over the outage fed both of its alarms and ended
C10_Witness ==
  \E i \in StartTasks :
    /\ tasks[i].pc = "done"
    /\ Len(tasks[i].fed) = 2
    /\ Len(supervisor.approvals) + Len(agentC.casebook) > 0

EnsureStopTasks == {i \in DOMAIN tasks : tasks[i].kind = "ensureStop"}

\* C11: once stop() has run and its ensureAgentsStopped has finished, Agents
\* A, B and C are all stopped for as long as the Supervisor status is stopped,
\* whatever handling or start() was in progress when stop() was called.
C11_AgentsStayStopped ==
  ( /\ supervisor.status = "stopped"
    /\ \A i \in EnsureStopTasks : tasks[i].pc = "done" )
  => \A a \in {"A", "B", "C"} : agents[a] = "stopped"

\* a step in which invocation i sent a power or rru request
SendsCommand(i) == tasks'[i].cmds > tasks[i].cmds

\* C12: a mitigateSite in flight sends no power or rru command once Agent B
\* or the Supervisor has been stopped: every command is sent while Agent B is
\* running and the Supervisor is not stopped.
C12_NoCommandAfterStop ==
  [][\A i \in HandleTasks :
       SendsCommand(i) => (agents.B = "running" /\ supervisor.status # "stopped")]_vars

\* C13: mitigateSite reads the policy once, at entry, and never again.  A
\* call that read a policy other than E2E automation sends no command and,
\* when the site is found, returns approval_required with the plan built
\* from the snapshot; a call that read E2E automation executes that plan and
\* never answers approval_required.  Neither the manual toggle nor a policy
\* change made while the call is in progress changes its mode.
C13_PolicyReadOnceAtEntry ==
  /\ [](\A i \in HandleTasks :
          /\ (tasks[i].mitCalls > 0 /\ ~tasks[i].e2e)
               => (tasks[i].cmds = 0 /\ tasks[i].res.kind # "mitigated")
          /\ tasks[i].e2e => tasks[i].res.error # "approval_required")
  /\ [][\A i \in HandleTasks :
          LET site == fetchSite(tower, siteIdOf(tasks[i].evt)) IN
          /\ tasks'[i].e2e = IF tasks[i].pc = "Bi" /\ tasks'[i].pc # "Bi"
                              THEN isE2E(policy) ELSE tasks[i].e2e
          /\ (tasks[i].pc = "Bf" /\ tasks'[i].pc # "Bf" /\ site.present)
               => IF tasks[i].e2e
                  THEN /\ tasks'[i].pc \in MitigatePcs \cup HealPcs
                       /\ tasks'[i].plan = _buildPlan(site)
                  ELSE /\ tasks'[i].res.error = "approval_required"
                       /\ tasks'[i].res.plan = _buildPlan(site)
                       /\ tower' = tower]_vars

\* a mitigation that read E2E automation at entry ran to its end although
\* the policy was switched back to human intervention while it was running
C13_Witness ==
  \E i \in HandleTasks :
    /\ tasks[i].e2e /\ ~isE2E(policy)
    /\ tasks[i].cmds > 0
    /\ tasks[i].res.kind = "mitigated"

-----------------------------------------------------------------------------
(* Specification for Agent B's E2E mitigation: the Supervisor has been     *)
(* started under E2E automation with nothing to sweep, the simulator then  *)
(* holds any of MitigateTowers and may change how it answers while the     *)
(* one event that is delivered is handled.                                 *)

LowBattery == Site("off", TRUE, "Available", "Available", 30)

SimModes == {"ok", "noboot", "down"}

MitigateTowers ==
  {[site |-> s, mode |-> m] : s \in {Healthy, Outage, SiteDown, LowBattery}, m \in SimModes}

InitMitigate ==
  /\ now = TickMs
  /\ supervisor = [status |-> "running", startedAt |-> TickMs, runtimeSec |-> 0,
                   tasksRouted |-> 0, lastNote |-> NoNote, approvals |-> <<>>,
                   nextApprovalId |-> 1]
  /\ lastRet = "OK: started"
  /\ processed = <<>>
  /\ policy = setPolicyWow(DEFAULT_POLICY, E2E)
  /\ notified = <<policy.version>>
  /\ autoEnabled = FALSE
  /\ agents = [A |-> "running", B |-> "running", C |-> "running", hA |-> 1]
  /\ agentC = NewAgentC
  /\ tower \in MitigateTowers
  /\ lastState = NoSite
  /\ emitter = NewEmitter
  /\ buffer = <<>>
  /\ tasks = <<Done(NewTask("start", "snap", NoEvt, 0))>>
  /\ handled = <<>>
  /\ published = <<>>
  /\ subscribers = NoSubscribers
  /\ perSite = NewPerSite
  /\ envCalls = 0

\* the one event of this scenario
MitigateEvent == handled = <<>> /\ EmitBusEvent

\* the simulator starts or stops answering, or stops booting the site
SimulatorModeChange ==
  /\ Env
  /\ \E m \in SimModes \ {tower.mode} : tower' = [tower EXCEPT !.mode = m]
  /\ UNCHANGED <<now, supervisor, lastRet, processed, policy, notified, autoEnabled,
                 agents, agentC, lastState, emitter, buffer, tasks, handled, published,
                 subscribers, perSite>>

NextMitigate ==
  \/ MitigateEvent
  \/ SimulatorModeChange
  \/ \E i \in DOMAIN tasks : HandleStep(i)
  \/ \E i \in DOMAIN tasks : MitigateStep(i)
  \/ \E i \in DOMAIN tasks : HealRadioStep(i)

\* every await of the handling settles: timers fire and tower requests end
\* in an answer or an error, and the event loop then resumes the handling
SpecMitigate ==
  /\ InitMitigate
  /\ [][NextMitigate]_vars
  /\ WF_vars(\E i \in DOMAIN tasks :
               HandleStep(i) \/ MitigateStep(i) \/ HealRadioStep(i))

Codes(alarms) == {alarms[k] : k \in DOMAIN alarms}

Executing == {i \in HandleTasks : tasks[i].pc \in MitigatePcs \cup HealPcs}

\* C14: under E2E automation a mitigateSite that started executing always
\* returns, whatever the simulator answers or fails to answer: it makes at
\* most MAX_SWEEPS sweeps and returns ok with remainingAlarms the alarms
\* detected on the last snapshot it holds (so an antenna still Unavailable
\* there is reported and allClear is false), allClear exactly when there
\* are none, and clearedAlarms the initial codes absent from the final ones.
C14_MitigateTerminates ==
  /\ (Executing # {}) ~> (\A i \in HandleTasks : tasks[i].res.kind = "mitigated")
  /\ [](\A i \in HandleTasks :
          /\ tasks[i].pass <= MAX_SWEEPS
          /\ tasks[i].res.kind = "mitigated"
               => /\ tasks[i].res.ok
                  /\ tasks[i].res.passes <= MAX_SWEEPS
                  /\ tasks[i].res.allClear <=> tasks[i].res.remaining = <<>>)
  /\ [][\A i \in HandleTasks :
          (tasks[i].pc = "W4" /\ tasks'[i].res.kind = "mitigated")
            => LET r == fetchSite(tower, siteIdOf(tasks[i].evt))
                   final == IF r.present THEN r ELSE tasks[i].site
                   res == tasks'[i].res IN
               /\ res.remaining = _detectAlarms(final)
               /\ final.antenna1 = "Unavailable"
                    => (InSeq("Antenna.A1.Unavailable", res.remaining) /\ ~res.allClear)
               /\ Codes(res.cleared) = Codes(tasks[i].initial) \ Codes(res.remaining)]_vars

\* a mitigation that used all its sweeps and returned with antenna 1 still
\* Unavailable
C14_Witness ==
  \E i \in HandleTasks :
    /\ tasks[i].res.kind = "mitigated" /\ tasks[i].res.ok
    /\ tasks[i].res.passes = MAX_SWEEPS
    /\ ~tasks[i].res.allClear
    /\ InSeq("Antenna.A1.Unavailable", tasks[i].res.remaining)

-----------------------------------------------------------------------------
(* _healRadio, one invocation at a time (checked under SpecMitigate) *)

\* the _healRadio invocations made so far: <<task, position in its log>>
Heals == { h \in (DOMAIN tasks) \X (1..MaxHeals) :
             tasks[h[1]].kind = "handle" /\ h[2] <= Len(tasks[h[1]].heals) }

HealOf(h) == tasks[h[1]].heals[h[2]]

\* no invocation goes beyond MAX_RRU_ATTEMPTS attempts of three rru commands
\* each, and one that answered rru_unavailable used them all
HealBounded ==
  \A h \in Heals :
    /\ Len(tasks[h[1]].heals) <= MaxHeals
    /\ HealOf(h).attempts <= MAX_RRU_ATTEMPTS
    /\ HealOf(h).cmds <= 3 * HealOf(h).attempts
    /\ HealOf(h).cmds <= 3 * MAX_RRU_ATTEMPTS
    /\ HealOf(h).out \in {"", "ok", "rru_unavailable"}
    /\ HealOf(h).out = "rru_unavailable"
         => (HealOf(h).attempts = MAX_RRU_ATTEMPTS /\ HealOf(h).cmds = 3 * MAX_RRU_ATTEMPTS)

\* a read of the running invocation that shows its antenna Available makes
\* it return ok in that step
ReturnsAtAvailableRead ==
  \A i \in HandleTasks :
    LET s == fetchSite(tower, siteIdOf(tasks[i].evt)) IN
    (/\ tasks[i].pc \in {"Hread", "Hwait", "Hread2"}
     /\ tasks'[i] # tasks[i]
     /\ svcOf(s, tasks[i].ant) = "Available")
       => tasks'[i].heals[Len(tasks[i].heals)].out = "ok"

\* an invocation that returned sends nothing any more
ReturnedHealIsOver ==
  \A h \in Heals : HealOf(h).out # "" => tasks'[h[1]].heals[h[2]] = HealOf(h)

\* every invocation returns: from some point on none is running
HealsTerminate == <>[](\A h \in Heals : HealOf(h).out # "")

\* C35: the radio-heal loop for one antenna makes at most 3 attempts; it
\* returns success at the first read that shows the antenna Available and
\* sends no rru command after that read; after 3 failed attempts it returns
\* error rru_unavailable.  One invocation therefore sends at most 9 rru
\* commands and always terminates, also when every device request fails.
C35_HealLoopBounded ==
  /\ []HealBounded
  /\ [][ReturnsAtAvailableRead /\ ReturnedHealIsOver]_vars
  /\ HealsTerminate

\* an invocation that met a simulator failing every request on its last
\* read and gave up after 3 attempts and 9 rru commands
C35_Witness ==
  /\ tower.mode = "down"
  /\ \E h \in Heals :
       /\ HealOf(h).out = "rru_unavailable"
       /\ HealOf(h).cmds = 3 * MAX_RRU_ATTEMPTS
  /\ \E h \in Heals : HealOf(h).out = "ok" /\ HealOf(h).cmds = 1

-----------------------------------------------------------------------------
(* Specification with failing agents: any call handleEvent makes on Agent  *)
(* A (correlate), Agent B (mitigateSite) or Agent C (recordIncident) may   *)
(* throw, at its entry or at any of its awaits.                            *)

\* faulty variant: a handler whose catch blocks pass the error on
caught_rethrows(c) == [c EXCEPT !.t = [c.t EXCEPT !.pc = "rejected"]]

\* the catch block that takes an exception thrown at c.t.pc, and where the
\* handler goes from there (store.js 342-344, 365-369, 399-401, 403-410)
caught(c) ==
  LET pc == c.t.pc
      e == [c EXCEPT !.t = [c.t EXCEPT !.errs = @ + 1]] IN
  IF pc = "A"
  THEN [e EXCEPT !.agents = startA(@), !.t = Done(e.t)]
  ELSE IF pc = "C1"
  THEN Decide([e EXCEPT !.agents.C = "running"])
  ELSE IF pc = "C1f"
  THEN Decide(e)
  ELSE IF pc = "Bi"
  THEN [e EXCEPT !.agents.B = "running",
                 !.sup = routed(c.sup, c.t.path),
                 !.t = Done([e.t EXCEPT !.mitCalls = @ + 1])]
  ELSE IF pc = "C2"
  THEN [e EXCEPT !.agents.C = "running", !.t = Done(e.t)]
  ELSE [e EXCEPT !.t = Done(e.t)]

\* an agent call made by handling i throws
AgentThrows(i) ==
  /\ tasks[i].kind = "handle"
  /\ tasks[i].pc \in HandlePcs \cup MitigatePcs \cup HealPcs
  /\ Commit(i, caught(Cfg(tasks[i])))

\* the Supervisor has been started, under either way of working, with
\* nothing to sweep
InitFaults ==
  /\ now = TickMs
  /\ supervisor = [status |-> "running", startedAt |-> TickMs, runtimeSec |-> 0,
                   tasksRouted |-> 0, lastNote |-> NoNote, approvals |-> <<>>,
                   nextApprovalId |-> 1]
  /\ lastRet = "OK: started"
  /\ processed = <<>>
  /\ policy \in {DEFAULT_POLICY, setPolicyWow(DEFAULT_POLICY, E2E)}
  /\ notified = IF policy = DEFAULT_POLICY THEN <<>> ELSE <<policy.version>>
  /\ autoEnabled = FALSE
  /\ agents = [A |-> "running", B |-> "running", C |-> "running", hA |-> 1]
  /\ agentC = NewAgentC
  /\ tower \in TowerInits
  /\ lastState = NoSite
  /\ emitter = NewEmitter
  /\ buffer = <<>>
  /\ tasks = <<Done(NewTask("start", "snap", NoEvt, 0))>>
  /\ handled = <<>>
  /\ published = <<>>
  /\ subscribers = NoSubscribers
  /\ perSite = NewPerSite
  /\ envCalls = 0

\* the events of this scenario
FaultEvent == Len(handled) < MaxFaultEvents /\ EmitBusEvent

NextFaults ==
  \/ FaultEvent
  \/ \E i \in DOMAIN tasks : HandleStep(i)
  \/ \E i \in DOMAIN tasks : MitigateStep(i)
  \/ \E i \in DOMAIN tasks : HealRadioStep(i)
  \/ \E i \in DOMAIN tasks : AgentThrows(i)

SpecFaults == InitFaults /\ [][NextFaults]_vars

\* a step in which handling i caught an agent's exception
Caught(i) == tasks'[i].errs = tasks[i].errs + 1

\* C15: an exception thrown by Agent A, B or C during a handling is caught
\* inside handleEvent: the handling never ends rejected; after an Agent A
\* or Agent B error and after an error of the final Agent C record it is
\* over, after an error of the investigating record it goes on to Agent B.
\* The ledger is not touched, so the event id stays in it and the event is
\* never handled again, and an actionable event delivered afterwards is
\* orchestrated as usual.
C15_AgentErrorsAreContained ==
  /\ [](\A i \in HandleTasks :
          /\ tasks[i].pc # "rejected"
          /\ Has(processed, eventId(tasks[i].evt))
          /\ \A j \in HandleTasks :
               eventId(tasks[i].evt) = eventId(tasks[j].evt) => i = j)
  /\ [][\A i \in HandleTasks :
          Caught(i)
            => /\ tasks'[i].pc = IF tasks[i].pc \in {"C1", "C1f"} THEN "Bi" ELSE "done"
               /\ processed' = processed
               /\ supervisor'.status = supervisor.status]_vars
  /\ [][(Delivered /\ supervisor.status = "running"
           /\ ~Has(processed, eventId(Last(handled').evt))
           /\ siteIdOf(Last(handled').evt) # ""
           /\ Last(handled').evt.type \in Actionable)
          => /\ Len(tasks') = Len(tasks) + 1
             /\ Last(tasks') = NewTask("handle", "A", Last(handled').evt, 0)]_vars

\* a handling ended on an Agent B exception, and an event delivered after
\* that was orchestrated up to its approval request
C15_Witness ==
  \E i, j \in HandleTasks :
    /\ i < j
    /\ tasks[i].errs > 0 /\ tasks[i].pc = "done" /\ tasks[i].mitCalls > 0
    /\ tasks[j].errs = 0 /\ tasks[j].pc = "done" /\ tasks[j].approval > 0

-----------------------------------------------------------------------------
(* Specification of the approvals queue: the Supervisor runs in HITL mode, *)
(* site S1 is in a mains outage, alarm events arrive one after the other   *)
(* and each ends in an approval request, while an operator resolves ids.   *)

ApprovalAlarm(k) == Ev("alarm.raised", "S1", "MainsFailure", NoTime, k)

InitApprovals ==
  /\ now = TickMs
  /\ supervisor = [status |-> "running", startedAt |-> TickMs, runtimeSec |-> 0,
                   tasksRouted |-> 0, lastNote |-> NoNote, approvals |-> <<>>,
                   nextApprovalId |-> 1]
  /\ lastRet = [found |-> FALSE]   \* no approval returned so far
  /\ processed = <<>>
  /\ policy = DEFAULT_POLICY
  /\ notified = <<>>
  /\ autoEnabled = FALSE
  /\ agents = [A |-> "running", B |-> "running", C |-> "running", hA |-> 1]
  /\ agentC = NewAgentC
  /\ tower = [site |-> Outage, mode |-> "ok"]
  /\ lastState = NoSite
  /\ emitter = NewEmitter
  /\ buffer = <<>>
  /\ tasks = <<Done(NewTask("start", "snap", NoEvt, 0))>>
  /\ handled = <<>>
  /\ published = <<>>
  /\ subscribers = NoSubscribers
  /\ perSite = NewPerSite
  /\ envCalls = 0

\* the next alarm event, once the previous one has been handled and while
\* fewer than MaxPending approvals wait for the operator
ApprovalEvent ==
  /\ InProgress = {}
  /\ Len(handled) < MaxApprovalEvents
  /\ Len(supervisor.approvals) < MaxPending
  /\ Deliver(ApprovalAlarm(Len(handled) + 1))
  /\ UNCHANGED <<now, supervisor, lastRet, policy, notified, autoEnabled, agents, agentC,
                 tower, lastState, emitter, buffer, published, envCalls,
                 subscribers, perSite>>

\* ids an operator may send: issued ones, "0" and ids not issued yet
ResolveIds == {idString(k) : k \in 0..(MaxApprovalEvents + 1)}

Decisions == {"approved", "rejected"}

\* POST /approvals/:id with a decision (supervisor/routes.js 106-135)
Resolve(id, decision) ==
  /\ supervisor' = resolveApproval(supervisor, id, decision)
  /\ lastRet' = resolveReturn(supervisor, id)
  /\ UNCHANGED <<now, processed, policy, notified, autoEnabled, agents, agentC, tower,
                 lastState, emitter, buffer, tasks, handled, published, envCalls,
                 subscribers, perSite>>

ResolveApproval == \E id \in ResolveIds, decision \in Decisions : Resolve(id, decision)

NextApprovals ==
  \/ ApprovalEvent
  \/ ResolveApproval
  \/ \E i \in DOMAIN tasks : HandleStep(i)

SpecApprovals == InitApprovals /\ [][NextApprovals]_vars

Pending == supervisor.approvals

\* a step that neither delivers an event nor advances a handling: in
\* SpecApprovals, a resolveApproval call
ResolveStep == tasks' = tasks /\ handled' = handled

\* the step is what resolveApproval(id, decision) does to the Supervisor
Resolved(id, decision) ==
  /\ lastRet' = resolveReturn(supervisor, id)
  /\ supervisor' = resolveApproval(supervisor, id, decision)

\* what resolveApproval(id, decision) has to do, seen from outside
ResolvedAsSpecified(id, decision) ==
  LET P == {k \in DOMAIN Pending : Pending[k].id = id} IN
  IF P = {}
  THEN /\ lastRet' = [found |-> FALSE]
       /\ supervisor' = supervisor
  ELSE \E k \in P :
         /\ lastRet' = [found |-> TRUE, item |-> Pending[k]]
         /\ Len(Pending') = Len(Pending) - 1
         /\ \A j \in 1..(k - 1) : Pending'[j] = Pending[j]
         /\ \A j \in (k + 1)..Len(Pending) : Pending'[j - 1] = Pending[j]
         /\ \A j \in DOMAIN Pending' : Pending'[j].id # id
         /\ supervisor'.lastNote = Note("Approval", id, decision)
         /\ supervisor'.nextApprovalId = supervisor.nextApprovalId
         /\ supervisor'.tasksRouted = supervisor.tasksRouted
         /\ supervisor'.status = supervisor.status

\* C16: resolveApproval(id, decision) with a pending id removes exactly that
\* approval, keeps the others in their order and returns it; with an id that
\* is not pending (already resolved, or never enqueued) it answers not-found
\* and leaves the approvals and lastNote as they were; in both cases no
\* agent is invoked, no handling is started and the simulator is untouched.
C16_ResolveRemovesExactlyOnce ==
  [][ResolveStep =>
       /\ UNCHANGED <<agents, agentC, tower, processed>>
       /\ \A id \in ResolveIds, decision \in Decisions :
            Resolved(id, decision) => ResolvedAsSpecified(id, decision)]_vars

\* an approval was resolved out of the middle of the queue, and resolving an
\* id again then answered not-found, the note still naming the first resolve
C16_Witness ==
  /\ lastRet = [found |-> FALSE]
  /\ supervisor.lastNote.text = "Approval"
  /\ \A k \in DOMAIN Pending : Pending[k].id # supervisor.lastNote.id
  /\ \E k, l \in DOMAIN Pending :
       /\ l = k + 1
       /\ Pending[k].id = idString(1)
       /\ Pending[l].id = idString(3)

\* Number(id) of a rendered id
RECURSIVE idNumber(_)
idNumber(d) ==
  IF Len(d) = 1 THEN d[1]
  ELSE 10 * idNumber(SubSeq(d, 1, Len(d) - 1)) + d[Len(d)]

\* the counter values the handlings so far rendered their approval ids from
Issued == {tasks[i].approval : i \in {j \in HandleTasks : tasks[j].approval > 0}}

\* C17: approval ids are unique and increase in creation order whatever is
\* enqueued and resolved: pending approvals have distinct ids, increasing
\* along the queue; every id issued so far is below nextApprovalId and no
\* two handlings were given the same id; a newly enqueued approval gets the
\* rendering of nextApprovalId, which no earlier approval (pending or
\* resolved) had, and nextApprovalId never decreases.
C17_ApprovalIdsUniqueIncreasing ==
  /\ [](/\ \A k, l \in DOMAIN Pending :
             k < l => /\ Pending[k].id # Pending[l].id
                      /\ idNumber(Pending[k].id) < idNumber(Pending[l].id)
        /\ \A k \in DOMAIN Pending :
             idNumber(Pending[k].id) < supervisor.nextApprovalId
        /\ \A n \in Issued : n < supervisor.nextApprovalId
        /\ \A i, j \in HandleTasks :
             (tasks[i].approval > 0 /\ i # j)
               => idString(tasks[i].approval) # idString(tasks[j].approval))
  /\ [][/\ supervisor'.nextApprovalId >= supervisor.nextApprovalId
        /\ Len(Pending') > Len(Pending)
             => /\ Len(Pending') = Len(Pending) + 1
                /\ Last(Pending').id = idString(supervisor.nextApprovalId)
                /\ \A n \in Issued : idString(n) # Last(Pending').id
                /\ supervisor'.nextApprovalId = supervisor.nextApprovalId + 1]_vars

\* the tenth approval was enqueued after earlier ones had been resolved
C17_Witness ==
  /\ Len(Pending) = 2
  /\ Pending[1].id = idString(2)
  /\ Pending[2].id = <<1, 0>>

-----------------------------------------------------------------------------
(* Policy requests in isolation: POST /policy with any patch over the      *)
(* values below, valid, differently cased and invalid, as time passes.     *)

PatchValues ==
  {"Critical First", "ADAPTIVE CORRELATION", "e2e AUTOMATION", HITL,
   ">95%", "75%", "bogus", "null"}

\* req.body: any subset of the three fields, each with any of the values
PolicyPatches == UNION {[S -> PatchValues] : S \in SUBSET PolicyFields}

NoPatch == [f \in {} |-> ""]

InitPolicy ==
  /\ now = TickMs
  /\ supervisor = [status |-> "idle", startedAt |-> NoTime, runtimeSec |-> 0,
                   tasksRouted |-> 0, lastNote |-> NoNote, approvals |-> <<>>,
                   nextApprovalId |-> 1]
  /\ lastRet = [req |-> NoPatch, status |-> 0, error |-> "", policy |-> DEFAULT_POLICY]
  /\ processed = <<>>
  /\ policy = DEFAULT_POLICY
  /\ notified = <<>>
  /\ autoEnabled = FALSE
  /\ agents = [A |-> "stopped", B |-> "stopped", C |-> "stopped", hA |-> 0]
  /\ agentC = NewAgentC
  /\ tower = [site |-> Healthy, mode |-> "ok"]
  /\ lastState = NoSite
  /\ emitter = NewEmitter
  /\ buffer = <<>>
  /\ tasks = <<>>
  /\ handled = <<>>
  /\ published = <<>>
  /\ subscribers = NoSubscribers
  /\ perSite = NewPerSite
  /\ envCalls = 0

\* POST /policy: setPolicy(patch, 'rest:post'); 400 with the message when it throws
PostPolicy ==
  /\ envCalls < MaxPolicyCalls
  /\ envCalls' = envCalls + 1
  /\ \E patch \in PolicyPatches :
       /\ policy' = policyAfter(policy, patch, now, "rest:post")
       /\ notified' = IF rejects(patch) THEN notified
                                        ELSE Append(notified, policy'.version)
       /\ lastRet' = IF rejects(patch)
                        THEN [req |-> patch, status |-> 400,
                              error |-> refused(patch), policy |-> policy']
                        ELSE [req |-> patch, status |-> 200,
                              error |-> "", policy |-> policy']
  /\ UNCHANGED <<now, supervisor, processed, autoEnabled, agents, agentC, tower,
                 lastState, emitter, buffer, tasks, handled, published,
                 subscribers, perSite>>

\* time passes between requests
PolicyTick ==
  /\ now < TickMs * (MaxPolicyCalls + 1)
  /\ now' = now + TickMs
  /\ UNCHANGED <<supervisor, lastRet, processed, policy, notified, autoEnabled,
                 agents, agentC, tower, lastState, emitter, buffer, tasks, handled,
                 published, envCalls,
                 subscribers, perSite>>

NextPolicy == PostPolicy \/ PolicyTick

SpecPolicy == InitPolicy /\ [][NextPolicy]_vars

\* a step that is one POST /policy
PostStep == envCalls' # envCalls

Options(f) ==
  CASE f = "alarmPrioritization" -> ALARM_OPTIONS
    [] f = "waysOfWorking" -> WOW_OPTIONS
    [] f = "kpiAlignment" -> KPI_OPTIONS

\* v is an enum value of f up to letter case
InEnum(f, v) == \E o \in Options(f) : toLowerCase(o) = toLowerCase(v)

\* C18: every accepted setPolicy call increases version by exactly 1 (and
\* stamps updatedAt and the source); in every reachable state the three
\* fields hold canonical values of their enum sets; an accepted value that
\* differs from an enum value only in letter case is stored in the canonical
\* spelling, and fields the patch does not carry keep their value.
C18_VersionAndCanonicalValues ==
  /\ [](\A f \in PolicyFields : policy[f] \in Options(f))
  /\ [](policy.version = 1 + Len(notified))
  /\ [][PostStep /\ lastRet'.status = 200 =>
          /\ policy'.version = policy.version + 1
          /\ policy'.updatedAt = now
          /\ lastRet'.policy = policy'
          /\ \A f \in PolicyFields :
               IF f \in DOMAIN lastRet'.req
                 THEN /\ policy'[f] \in Options(f)
                      /\ toLowerCase(policy'[f]) = toLowerCase(lastRet'.req[f])
                 ELSE policy'[f] = policy[f]]_vars

\* a differently cased waysOfWorking was accepted as the second change
C18_Witness ==
  /\ lastRet.status = 200
  /\ "waysOfWorking" \in DOMAIN lastRet.req
  /\ lastRet.req["waysOfWorking"] = "e2e AUTOMATION"
  /\ policy.waysOfWorking = E2E
  /\ policy.version = 3

\* C19: a patch carrying any value outside its enum set is rejected as a
\* whole: the stored policy, version, updatedAt and the fields with valid
\* values included, is unchanged, nobody is notified, and the answer is 400;
\* a patch without such a value is accepted.
C19_InvalidPatchRejectedWhole ==
  [][PostStep =>
       IF \E f \in DOMAIN lastRet'.req : ~InEnum(f, lastRet'.req[f])
         THEN /\ policy' = policy
              /\ notified' = notified
              /\ lastRet'.status = 400
         ELSE /\ lastRet'.status = 200
              /\ notified' = Append(notified, policy'.version)]_vars

\* after an accepted change and some time, a patch with a valid new
\* alarmPrioritization and an invalid kpiAlignment was refused
C19_Witness ==
  /\ lastRet.status = 400
  /\ lastRet.error = "kpiAlignment"
  /\ DOMAIN lastRet.req = {"alarmPrioritization", "kpiAlignment"}
  /\ lastRet.req["alarmPrioritization"] = "ADAPTIVE CORRELATION"
  /\ policy.alarmPrioritization = "Critical First"
  /\ policy.version = 2
  /\ now > policy.updatedAt

-----------------------------------------------------------------------------
(* The Delta Emitter in isolation: the simulator's WebSocket pushes full    *)
(* snapshots of two sites that come and go, and the socket reconnects.      *)

\* what a snapshot may say about one site: alarms (one of them listed twice)
\* and the service of the two antennas (absent for a bare site)
SiteValues ==
  { [alarms |-> <<>>, antenna1 |-> "Available", antenna2 |-> "Available"],
    [alarms |-> <<"MainsFailure">>, antenna1 |-> "Available", antenna2 |-> "Unavailable"],
    [alarms |-> <<"MainsFailure", "ServiceUnavailable">>,
     antenna1 |-> "Unavailable", antenna2 |-> "Unavailable"],
    [alarms |-> <<"ServiceUnavailable", "ServiceUnavailable">>,
     antenna1 |-> "Unavailable", antenna2 |-> "Available"],
    [alarms |-> <<>>, antenna1 |-> Undefined, antenna2 |-> Undefined] }

\* state objects with any of the sites S1, S2
Snapshots ==
  LET SiteEntry(siteId, v) ==
        [siteId |-> siteId, alarms |-> v.alarms, antenna1 |-> v.antenna1,
         antenna2 |-> v.antenna2]
  IN { [sites |-> <<>>] }
       \cup { [sites |-> <<SiteEntry(id, v)>>] : id \in {"S1", "S2"}, v \in SiteValues }
       \cup { [sites |-> <<SiteEntry("S1", v), SiteEntry("S2", w)>>] :
                v \in SiteValues, w \in SiteValues }

InitDelta ==
  /\ now = TickMs
  /\ supervisor = [status |-> "idle", startedAt |-> NoTime, runtimeSec |-> 0,
                   tasksRouted |-> 0, lastNote |-> NoNote, approvals |-> <<>>,
                   nextApprovalId |-> 1]
  /\ lastRet = ""
  /\ processed = <<>>
  /\ policy = DEFAULT_POLICY
  /\ notified = <<>>
  /\ autoEnabled = FALSE
  /\ agents = [A |-> "stopped", B |-> "stopped", C |-> "stopped", hA |-> 0]
  /\ agentC = NewAgentC
  /\ tower = [site |-> Healthy, mode |-> "ok"]
  /\ lastState = [sites |-> <<>>]
  /\ emitter \in {DeltaEmitter(b) : b \in BOOLEAN}
  /\ buffer = <<>>
  /\ tasks = <<>>
  /\ handled = <<>>
  /\ published = <<>>
  /\ subscribers = NoSubscribers
  /\ perSite = NewPerSite
  /\ envCalls = 0

\* ws.on('message') with a state.update envelope: the state is cached, fed
\* to the Delta Emitter and announced on channel 'event'
WsStateUpdate ==
  /\ envCalls < MaxSnapshots
  /\ envCalls' = envCalls + 1
  /\ \E stateObj \in Snapshots :
       LET r == ingest(emitter, stateObj, now)
           evts == Append(r.events, StateUpdate(now))
           b == emitAll(Bus, evts, now, policy, agents)
       IN /\ lastState' = stateObj
          /\ emitter' = r.emitter
          /\ buffer' = b.buffer
          /\ subscribers' = b.subscribers
          /\ perSite' = b.perSite
          /\ supervisor' = b.sup
          /\ published' = IF supervisor.status = "running"
                            THEN published \o evts ELSE published
  /\ UNCHANGED <<now, lastRet, processed, policy, notified,
                 autoEnabled, agents, agentC, tower, tasks, handled>>

\* ws.on('open'): deltaEmitter.reset()
WsOpen ==
  /\ emitter' = reset(emitter)
  /\ UNCHANGED <<now, supervisor, lastRet, processed, policy, notified,
                 autoEnabled, agents, agentC, tower, lastState, buffer, tasks,
                 handled, published, envCalls,
                 subscribers, perSite>>

NextDelta == WsStateUpdate \/ WsOpen

SpecDelta == InitDelta /\ [][NextDelta]_vars

\* a step that ingests a snapshot
IngestStep == envCalls' # envCalls

\* what the step emitted before its closing state.update
Emitted == SubSeq(buffer', Len(buffer) + 1, Len(buffer') - 1)

SiteIds == {"S1", "S2"}
AlarmNames == {"MainsFailure", "ServiceUnavailable"}
Antennas == {"antenna1", "antenna2"}

\* the (site, alarm) pairs a snapshot lists
AlarmsIn(S) ==
  { p \in SiteIds \X AlarmNames :
      \E i \in 1..Len(S.sites) :
        /\ S.sites[i].siteId = p[1]
        /\ \E k \in 1..Len(S.sites[i].alarms) : S.sites[i].alarms[k] = p[2] }

\* the service a snapshot gives for an antenna of a site, if any
ServiceIn(S, q) ==
  IF \E i \in 1..Len(S.sites) : S.sites[i].siteId = q[1]
    THEN S.sites[CHOOSE i \in 1..Len(S.sites) : S.sites[i].siteId = q[1]][q[2]]
    ELSE Undefined

\* how many of the emitted envelopes are of this type for this pair
AlarmCount(type, p) ==
  Cardinality({ k \in 1..Len(Emitted) :
                  /\ Emitted[k].type = type
                  /\ Emitted[k].siteId = p[1]
                  /\ Emitted[k].alarm = p[2] })

ChangeCount(q, from, to) ==
  Cardinality({ k \in 1..Len(Emitted) :
                  /\ Emitted[k].type = "service.changed"
                  /\ Emitted[k].siteId = q[1]
                  /\ Emitted[k].antenna = q[2]
                  /\ Emitted[k].from = from
                  /\ Emitted[k].to = to })

\* C20: when snapshot S2 is ingested after snapshot S1 with no reset in
\* between, the emitter emits exactly one alarm.raised per (site, alarm) in
\* S2 and not in S1, one alarm.cleared per (site, alarm) in S1 and not in S2,
\* one service.changed (with the old and the new value) per (site, antenna)
\* whose service differs, and nothing else, sites that appear or disappear
\* included.
C20_DeltaSoundness ==
  [][IngestStep /\ ~emitter.lastAlarmsBySite.null /\ ~emitter.lastServiceBySite.null =>
       LET S1 == lastState
           S2 == lastState'
           raised == AlarmsIn(S2) \ AlarmsIn(S1)
           cleared == AlarmsIn(S1) \ AlarmsIn(S2)
           changed == { q \in SiteIds \X Antennas : ServiceIn(S1, q) # ServiceIn(S2, q) }
       IN /\ \A p \in SiteIds \X AlarmNames :
               /\ AlarmCount("alarm.raised", p) = IF p \in raised THEN 1 ELSE 0
               /\ AlarmCount("alarm.cleared", p) = IF p \in cleared THEN 1 ELSE 0
          /\ \A q \in SiteIds \X Antennas :
               ChangeCount(q, ServiceIn(S1, q), ServiceIn(S2, q))
                 = IF q \in changed THEN 1 ELSE 0
          /\ Len(Emitted) = Cardinality(raised) + Cardinality(cleared)
                              + Cardinality(changed)]_vars

\* S1 disappeared with its alarm and S2 appeared with its antennas: the ring
\* holds the clearing of S1's alarm and S2's change from no service at all
C20_Witness ==
  /\ ~emitter.lastAlarmsBySite.null
  /\ Len(lastState.sites) = 1
  /\ lastState.sites[1].siteId = "S2"
  /\ \E k \in 1..Len(buffer) :
       /\ buffer[k].type = "alarm.cleared"
       /\ buffer[k].siteId = "S1"
  /\ \E k \in 1..Len(buffer) :
       /\ buffer[k].type = "service.changed"
       /\ buffer[k].siteId = "S2"
       /\ buffer[k].from = Undefined
  /\ buffer[Len(buffer) - 1].type = "service.changed"

\* a step that ingests a snapshot into an emitter without remembered views
FirstIngestStep ==
  IngestStep /\ (emitter.lastAlarmsBySite.null \/ emitter.lastServiceBySite.null)

\* C21: after the reset of a reconnect the next ingested snapshot emits no
\* alarm event for a (site, alarm) that the last snapshot before the reset
\* already listed, and no service event at all.
C21_NoEventsForOldState ==
  [][FirstIngestStep =>
       \A k \in 1..Len(Emitted) :
         /\ Emitted[k].type # "service.changed"
         /\ <<Emitted[k].siteId, Emitted[k].alarm>> \notin AlarmsIn(lastState)]_vars

\* the place of an envelope in the promised order: alarm events before
\* service events, sites ascending, raised before cleared
OrderKey(evt) ==
  (IF evt.type = "service.changed" THEN 100 ELSE 0)
    + (IF evt.siteId = "S1" THEN 10 ELSE 20)
    + (IF evt.type = "alarm.cleared" THEN 1 ELSE 0)

\* C22: the envelopes of one ingest call appear in the order: per site in
\* ascending site key the raised and then the cleared alarms, then all
\* service changes by ascending site key; all carry the same timestamp.
C22_EmissionOrder ==
  [][IngestStep =>
       \A j, k \in 1..Len(Emitted) :
         j < k => /\ OrderKey(Emitted[j]) <= OrderKey(Emitted[k])
                  /\ Emitted[j].ts = Emitted[k].ts]_vars

\* the (site, alarm) pairs and the services a remembered view holds
ViewAlarms(view) ==
  { p \in SiteIds \X AlarmNames :
      \E i \in 1..Len(view.entries) :
        /\ view.entries[i].siteId = p[1]
        /\ \E k \in 1..Len(view.entries[i].alarms) : view.entries[i].alarms[k] = p[2] }

ViewService(view, q) ==
  IF \E i \in 1..Len(view.entries) : view.entries[i].siteId = q[1]
    THEN view.entries[CHOOSE i \in 1..Len(view.entries) : view.entries[i].siteId = q[1]][q[2]]
    ELSE Undefined

\* C23: the first ingest (no views remembered) emits nothing when
\* bootstrapEmit is false; when it is true it emits exactly one alarm.raised
\* with bootstrap = true per (site, alarm) of the snapshot and nothing else;
\* either way the views of this snapshot are remembered afterwards.
C23_FirstIngest ==
  [][FirstIngestStep =>
       /\ IF emitter.bootstrapEmit
            THEN /\ \A p \in SiteIds \X AlarmNames :
                      AlarmCount("alarm.raised", p)
                        = IF p \in AlarmsIn(lastState') THEN 1 ELSE 0
                 /\ Len(Emitted) = Cardinality(AlarmsIn(lastState'))
                 /\ \A k \in 1..Len(Emitted) : Emitted[k].bootstrap
            ELSE Emitted = <<>>
       /\ emitter'.bootstrapEmit = emitter.bootstrapEmit
       /\ ~emitter'.lastAlarmsBySite.null
       /\ ~emitter'.lastServiceBySite.null
       /\ ViewAlarms(emitter'.lastAlarmsBySite) = AlarmsIn(lastState')
       /\ \A q \in SiteIds \X Antennas :
            ViewService(emitter'.lastServiceBySite, q) = ServiceIn(lastState', q)]_vars

\* an emitter built with bootstrapEmit: false took a first snapshot that
\* lists alarms: only the state.update is in the ring
C23_Witness ==
  /\ ~emitter.bootstrapEmit
  /\ ~emitter.lastAlarmsBySite.null
  /\ AlarmsIn(lastState) # {}
  /\ Len(buffer) = 1

-----------------------------------------------------------------------------
(* Batch correlate in isolation: POST /api/agents/correlation/correlate    *)
(* with a batch of up to MaxBatch events, under either prioritization.     *)

\* timestamps of the batch events, in ms: T, T + 4 min, T + 5 min (the window),
\* T + 6 min, and one window and 1 ms after T + 5 min
BatchTimes == {0, 240000, 300000, 360000, 600001}

\* alarm code in `type` (as the Supervisor sends it), a bus-shaped event with
\* the code in `alarm`, and a noise code in another letter case
BatchShapes ==
  { [type |-> "MainsFailure", alarm |-> ""],
    [type |-> "ServiceUnavailable", alarm |-> ""],
    [type |-> "alarm.raised", alarm |-> "MainsFailure"],
    [type |-> "Heartbeat", alarm |-> ""] }

BatchEvents ==
  { [siteId |-> site, type |-> sh.type, alarm |-> sh.alarm, timestamp |-> t] :
      site \in {"S1", "S2"}, sh \in BatchShapes, t \in BatchTimes }

Batches == UNION { [1..n -> BatchEvents] : n \in 0..MaxBatch }

Adaptive ==
  setPolicy(DEFAULT_POLICY, [alarmPrioritization |-> "Adaptive Correlation"],
            TickMs, "rest:post")

InitCorrelate ==
  /\ now = TickMs
  /\ supervisor = [status |-> "idle", startedAt |-> NoTime, runtimeSec |-> 0,
                   tasksRouted |-> 0, lastNote |-> NoNote, approvals |-> <<>>,
                   nextApprovalId |-> 1]
  /\ lastRet \in { [events |-> b, ran |-> FALSE, incidents |-> <<>>] : b \in Batches }
  /\ processed = <<>>
  /\ policy \in {DEFAULT_POLICY, Adaptive}
  /\ notified = IF policy = DEFAULT_POLICY THEN <<>> ELSE <<policy.version>>
  /\ autoEnabled = FALSE
  /\ agents = [A |-> "running", B |-> "stopped", C |-> "stopped", hA |-> 1]
  /\ agentC = NewAgentC
  /\ tower = [site |-> Healthy, mode |-> "ok"]
  /\ lastState = NoSite
  /\ emitter = NewEmitter
  /\ buffer = <<>>
  /\ tasks = <<>>
  /\ handled = <<>>
  /\ published = <<>>
  /\ subscribers = NoSubscribers
  /\ perSite = NewPerSite
  /\ envCalls = 0

\* the route: 409 unless Agent A is running, else correlate(events)
CorrelateBatch ==
  /\ ~lastRet.ran
  /\ agents.A = "running"
  /\ lastRet' = [lastRet EXCEPT
                   !.ran = TRUE,
                   !.incidents = correlate(policy, lastRet.events, windowMs).incidents]
  /\ UNCHANGED <<now, supervisor, processed, policy, notified, autoEnabled, agents,
                 agentC, tower, lastState, emitter, buffer, tasks, handled,
                 published, envCalls,
                 subscribers, perSite>>

NextCorrelate == CorrelateBatch

SpecCorrelate == InitCorrelate /\ [][NextCorrelate]_vars

\* the batch events of a site that pass the filter
KeptOf(site) ==
  { i \in 1..Len(lastRet.events) :
      /\ lastRet.events[i].siteId = site
      /\ ~isNoiseAlarm(batchType(lastRet.events[i]))
      /\ (policy.alarmPrioritization = "Critical First"
            => isCriticalAlarm(batchType(lastRet.events[i]))) }

\* the incidents returned for a site, in order
IncidentsOf(site) == SelectSeq(lastRet.incidents, LAMBDA inc : inc.siteId = site)

RECURSIVE Flat(_)
Flat(incs) == IF incs = <<>> THEN <<>> ELSE Head(incs).events \o Flat(Tail(incs))

\* C26: batch correlate puts the kept events of a site, sorted by timestamp,
\* into incidents with an inclusive window: two neighbours in that order are
\* in the same incident exactly when the later one is at most windowMs after
\* the earlier one (ts + windowMs joins, ts + windowMs + 1 starts a new one).
C26_InclusiveWindow ==
  lastRet.ran =>
    \A site \in {"S1", "S2"} :
      LET incs == IncidentsOf(site)
          evs == Flat(incs)
      IN /\ Len(evs) = Cardinality(KeptOf(site))
         /\ \A e \in BatchEvents :
              Cardinality({k \in 1..Len(evs) : evs[k] = e})
                = Cardinality({i \in KeptOf(site) : lastRet.events[i] = e})
         /\ \A k \in 1..(Len(evs) - 1) : evs[k].timestamp <= evs[k + 1].timestamp
         /\ \A n \in 1..Len(incs) :
              /\ incs[n].events # <<>>
              /\ \A k \in 1..(Len(incs[n].events) - 1) :
                   incs[n].events[k + 1].timestamp - incs[n].events[k].timestamp
                     <= windowMs
         /\ \A n \in 1..(Len(incs) - 1) :
              incs[n + 1].events[1].timestamp
                - incs[n].events[Len(incs[n].events)].timestamp > windowMs

\* events at T, T + windowMs and T + 2 windowMs + 1 of one site, given out of
\* order: the first two share an incident, the third has its own
C26_Witness ==
  /\ lastRet.ran
  /\ Len(lastRet.events) = 3
  /\ \A i \in 1..3 : lastRet.events[i].siteId = "S1" /\ lastRet.events[i].type = "MainsFailure"
  /\ lastRet.events[1].timestamp = 600001
  /\ lastRet.events[2].timestamp = 300000
  /\ lastRet.events[3].timestamp = 0
  /\ Len(lastRet.incidents) = 2
  /\ lastRet.incidents[1].count = 2
  /\ lastRet.incidents[1].end = 300000
  /\ lastRet.incidents[2].start = 600001

\* the batch of the scenario: MainsFailure at T, ServiceUnavailable at
\* T + 4 min and at T + 6 min, all of site S1
Scenario27 ==
  << [siteId |-> "S1", type |-> "MainsFailure", alarm |-> "", timestamp |-> 0],
     [siteId |-> "S1", type |-> "ServiceUnavailable", alarm |-> "", timestamp |-> 240000],
     [siteId |-> "S1", type |-> "ServiceUnavailable", alarm |-> "", timestamp |-> 360000] >>

\* C27: correlate with a 5 min window on the scenario's three events returns
\* two incidents: [T, T + 4 min] with count 2 and [T + 6 min, T + 6 min]
\* with count 1.
C27_ScenarioTwoIncidents ==
  lastRet.ran /\ lastRet.events = Scenario27 =>
    /\ Len(lastRet.incidents) = 2
    /\ lastRet.incidents[1].start = 0
    /\ lastRet.incidents[1].end = 240000
    /\ lastRet.incidents[1].count = 2
    /\ lastRet.incidents[2].start = 360000
    /\ lastRet.incidents[2].end = 360000
    /\ lastRet.incidents[2].count = 1

\* C27 (amended): on the scenario's three events correlate returns one
\* incident spanning [T, T + 6 min] with count 3 and types MainsFailure,
\* ServiceUnavailable: the event at T + 6 min is 2 min after the incident's
\* end (T + 4 min), which is within the window.
C27_ScenarioOneIncident ==
  lastRet.ran /\ lastRet.events = Scenario27 =>
    /\ Len(lastRet.incidents) = 1
    /\ lastRet.incidents[1].siteId = "S1"
    /\ lastRet.incidents[1].start = 0
    /\ lastRet.incidents[1].end = 360000
    /\ lastRet.incidents[1].count = 3
    /\ lastRet.incidents[1].types = <<"MainsFailure", "ServiceUnavailable">>
    /\ lastRet.incidents[1].events = Scenario27

C27_Witness ==
  /\ lastRet.ran
  /\ lastRet.events = Scenario27
  /\ policy.alarmPrioritization = "Critical First"
  /\ lastRet.incidents # <<>>

-----------------------------------------------------------------------------
(* The Supervisor's Agent A probe on events that the filter rejects or     *)
(* keeps: a running Supervisor in HITL mode, site S1 in a mains outage,    *)
(* events of known and unknown sites with critical, noise, other and no    *)
(* alarm code, under either prioritization.                                *)

FilterAlarms == {"MainsFailure", "heartbeat", "Heartbeat", "NOOP", "unknown", "DoorOpen", ""}

FilterEvents(k) ==
  { Ev("alarm.raised", site, alarm, NoTime, k) :
      site \in {"S1", "unknown"}, alarm \in FilterAlarms }
  \cup { Ev("service.changed", "S1", "", NoTime, k) }

InitFilter ==
  /\ now = TickMs
  /\ supervisor = [status |-> "running", startedAt |-> TickMs, runtimeSec |-> 0,
                   tasksRouted |-> 0, lastNote |-> NoNote, approvals |-> <<>>,
                   nextApprovalId |-> 1]
  /\ lastRet = "OK: started"
  /\ processed = <<>>
  /\ policy \in {DEFAULT_POLICY, Adaptive}
  /\ notified = IF policy = DEFAULT_POLICY THEN <<>> ELSE <<policy.version>>
  /\ autoEnabled = FALSE
  /\ agents = [A |-> "running", B |-> "running", C |-> "running", hA |-> 1]
  /\ agentC = NewAgentC
  /\ tower = [site |-> Outage, mode |-> "ok"]
  /\ lastState = NoSite
  /\ emitter = NewEmitter
  /\ buffer = <<>>
  /\ tasks = <<Done(NewTask("start", "snap", NoEvt, 0))>>
  /\ handled = <<>>
  /\ published = <<>>
  /\ subscribers = NoSubscribers
  /\ perSite = NewPerSite
  /\ envCalls = 0

\* the k-th event reaches the Supervisor's listener, whatever the earlier
\* invocations of handleEvent are doing
FilterEvent ==
  /\ Len(handled) < MaxFilterEvents
  /\ \E evt \in FilterEvents(Len(handled) + 1) : Deliver(evt)
  /\ UNCHANGED <<now, supervisor, lastRet, policy, notified, autoEnabled, agents, agentC,
                 tower, lastState, emitter, buffer, published, envCalls,
                 subscribers, perSite>>

NextFilter ==
  \/ FilterEvent
  \/ \E i \in DOMAIN tasks : HandleStep(i)

SpecFilter == InitFilter /\ [][NextFilter]_vars

\* the events the claim is about: unknown site, a noise alarm in any letter
\* case, or under 'Critical First' an alarm code that is not critical
Rejected(evt) ==
  LET code == IF evt.alarm # "" THEN evt.alarm ELSE evt.type IN
  \/ evt.siteId = "unknown"
  \/ code \in {"unknown", "heartbeat", "Heartbeat", "NOOP"}
  \/ /\ policy.alarmPrioritization = "Critical First"
     /\ code \notin {"MainsFailure", "ServiceUnavailable", "HeartbeatFailure"}

RejectedTasks == {i \in DOMAIN tasks : tasks[i].kind = "handle" /\ Rejected(tasks[i].evt)}

KeptTasks == {i \in DOMAIN tasks : tasks[i].kind = "handle" /\ ~Rejected(tasks[i].evt)}

\* C28: the handleEvent invocation of an event with site 'unknown', with a
\* noise alarm (any letter case) or, under 'Critical First', with a
\* non-critical alarm ends at the Agent A probe: it records no case, calls no
\* Agent B and enqueues no approval, and the event's id is in the ledger.
C28_RejectedEventsStopAtAgentA ==
  /\ \A i \in RejectedTasks :
       /\ tasks[i].pc \in {"A", "done"}
       /\ tasks[i].path = "none"
       /\ tasks[i].mitCalls = 0
       /\ tasks[i].approval = 0
       /\ tasks[i].finalCalls = 0
       /\ Has(processed, eventId(tasks[i].evt))
  /\ \A k \in 1..Len(handled) : Has(processed, eventId(handled[k].evt))
  /\ Len(agentC.casebook) <= Cardinality(KeptTasks)
  /\ Len(supervisor.approvals) <= Cardinality(KeptTasks)
  /\ KeptTasks = {} => agentC = NewAgentC /\ supervisor.lastNote = NoNote

\* heartbeat of site 'unknown' was dropped at the probe while a MainsFailure
\* of S1 went on to a case and an approval
C28_Witness ==
  /\ Len(tasks) = 3
  /\ tasks[2].evt.siteId = "unknown" /\ tasks[2].evt.alarm = "heartbeat"
  /\ tasks[2].pc = "done"
  /\ Has(processed, eventId(tasks[2].evt))
  /\ tasks[3].evt.siteId = "S1" /\ tasks[3].evt.alarm = "MainsFailure"
  /\ tasks[3].pc = "done"
  /\ Len(agentC.casebook) = 1
  /\ Len(supervisor.approvals) = 1

-----------------------------------------------------------------------------
(* Agent C on its own: POST /api/agents/rca/record calls recordIncident    *)
(* for sites S1 and S2, while earlier calls still wait for _fetchSite and  *)
(* the clock advances.  envCalls counts calls and clock steps.             *)

RecordCauses == {CAUSE, "Heartbeat"}

RecordResolutions == {"investigating", "restored"}

InitCasebook ==
  /\ now = TickMs
  /\ supervisor = [status |-> "idle", startedAt |-> NoTime, runtimeSec |-> 0,
                   tasksRouted |-> 0, lastNote |-> NoNote, approvals |-> <<>>,
                   nextApprovalId |-> 1]
  /\ lastRet = "none"
  /\ processed = <<>>
  /\ policy = DEFAULT_POLICY
  /\ notified = <<>>
  /\ autoEnabled = FALSE
  /\ agents = [A |-> "stopped", B |-> "stopped", C |-> "stopped", hA |-> 0]
  /\ agentC = NewAgentC
  /\ tower = [site |-> Outage, mode |-> "ok"]
  /\ lastState = NoSite
  /\ emitter = NewEmitter
  /\ buffer = <<>>
  /\ tasks = <<>>
  /\ handled = <<>>
  /\ published = <<>>
  /\ subscribers = NoSubscribers
  /\ perSite = NewPerSite
  /\ envCalls = 0

\* recordIncident up to its await of _fetchSite (rca.js 125-139); handled
\* logs the arguments of each call and whether it was skipped
RecordIncident ==
  /\ envCalls < MaxRecords
  /\ \E site \in {"S1", "S2"}, cause \in RecordCauses, resolution \in RecordResolutions :
       LET skipped == recordRejects(agentC, site, cause, resolution, now)
           call == Ev("rca.record", site, cause, NoTime, now) IN
       /\ agents' = [agents EXCEPT !.C = "running"]
       /\ agentC' = IF skipped THEN agentC
                    ELSE _dedup(agentC, site, cause, resolution, now)
       /\ tasks' = IF skipped THEN tasks
                   ELSE Append(tasks, [NewTask("record", "Cfetch", call, 0)
                                         EXCEPT !.finalRes = resolution])
       /\ handled' = Append(handled, [evt |-> call, resolution |-> resolution,
                                      skipped |-> skipped])
  /\ envCalls' = envCalls + 1
  /\ UNCHANGED <<now, supervisor, lastRet, processed, policy, notified, autoEnabled,
                 tower, lastState, emitter, buffer, published,
                 subscribers, perSite>>

\* recordIncident once _fetchSite answered (rca.js 139-168)
RecordFinish(i) ==
  /\ tasks[i].kind = "record"
  /\ tasks[i].pc = "Cfetch"
  /\ LET c == recordPush(Cfg(tasks[i]), tasks[i].evt.alarm, <<>>, tasks[i].finalRes) IN
     Commit(i, [c EXCEPT !.t = [Done(c.t) EXCEPT
                                  !.caseNo = Len(c.agentC.casebook)]])

CasebookTick ==
  /\ envCalls < MaxRecords
  /\ now' = now + TickMs
  /\ envCalls' = envCalls + 1
  /\ UNCHANGED <<supervisor, lastRet, processed, policy, notified, autoEnabled, agents,
                 agentC, tower, lastState, emitter, buffer, tasks, handled, published,
                 subscribers, perSite>>

NextCasebook ==
  \/ RecordIncident
  \/ \E i \in DOMAIN tasks : RecordFinish(i)
  \/ CasebookTick

SpecCasebook == InitCasebook /\ [][NextCasebook]_vars

\* when the call that pushed the k-th case passed the dedup check
AcceptedAt(k) == LET i == CHOOSE i \in DOMAIN tasks : tasks[i].caseNo = k
                 IN tasks[i].evt.ts

\* cases k < l of one site with no case of that site in between
ConsecutiveCases ==
  { kl \in (DOMAIN agentC.casebook) \X (DOMAIN agentC.casebook) :
      /\ kl[1] < kl[2]
      /\ agentC.casebook[kl[1]].siteId = agentC.casebook[kl[2]].siteId
      /\ \A m \in (kl[1] + 1)..(kl[2] - 1) :
           agentC.casebook[m].siteId # agentC.casebook[kl[1]].siteId }

\* two consecutive cases of a site differ in (cause, resolution) or were
\* accepted at least DEDUP_WINDOW_MS apart
ConsecutiveCasesDiffer ==
  \A kl \in ConsecutiveCases :
    LET a == agentC.casebook[kl[1]]
        b == agentC.casebook[kl[2]] IN
    \/ a.cause # b.cause
    \/ a.resolution # b.resolution
    \/ AcceptedAt(kl[2]) - AcceptedAt(kl[1]) >= DEDUP_WINDOW_MS
    \/ AcceptedAt(kl[1]) - AcceptedAt(kl[2]) >= DEDUP_WINDOW_MS

\* a call that was skipped (noise or dedup) adds no case, leaves tasks as it
\* is and starts no continuation
SkippedCallAddsNothing ==
  [][(Len(handled') > Len(handled) /\ handled'[Len(handled')].skipped)
       => /\ agentC' = agentC
          /\ tasks' = tasks]_vars

\* C30: in Agent C's casebook any two consecutive accepted cases of one site
\* differ in (cause, resolution) or were accepted at least 10 s apart, for
\* any sequence and interleaving of recordIncident calls; and a record
\* rejected as noise or dedup-suppressed adds no case and does not
\* increment tasks.
C30_CasebookDedup == []ConsecutiveCasesDiffer /\ SkippedCallAddsNothing

\* calls (positions in handled) that recordIncident accepted
AcceptedCalls == { i \in DOMAIN handled : ~handled[i].skipped }

\* an accepted call for the same (siteId, cause, resolution) less than
\* DEDUP_WINDOW_MS before call j
AcceptedTwin(j) ==
  \E i \in AcceptedCalls :
    /\ i < j
    /\ handled[i].evt.siteId = handled[j].evt.siteId
    /\ handled[i].evt.alarm = handled[j].evt.alarm
    /\ handled[i].resolution = handled[j].resolution
    /\ handled[j].evt.ts - handled[i].evt.ts < DEDUP_WINDOW_MS

\* C38: a record for a site is suppressed by Agent C (dedup_suppressed)
\* whenever a case with the same (siteId, cause, resolution) was accepted
\* less than 10 s earlier, also when a case with a different cause or
\* resolution for that site was accepted in between (investigating,
\* restored, investigating within 10 s).
C38_RepeatSuppressed ==
  \A j \in DOMAIN handled : AcceptedTwin(j) => handled[j].skipped

-----------------------------------------------------------------------------
(* Agent C's dispatch email: records are made as above while the site is   *)
(* healthy or in outage, and POST /api/agents/rca/dispatch-email/:siteId    *)
(* composes the email.  lastRet holds the site asked for, how many cases   *)
(* the casebook held at the call and what the call returned.               *)

\* faulty variant: the most recent case that suggests dispatch is used
composeDispatchEmail_anySuggested(ac, siteId) ==
  LET mine == { k \in DOMAIN ac.casebook :
                  /\ ac.casebook[k].siteId = siteId
                  /\ ~_isNoise(siteId, ac.casebook[k].cause)
                  /\ ac.casebook[k].dispatchSuggested } IN
  IF mine = {}
  THEN [ok |-> FALSE, error |-> "no_unresolved_case"]
  ELSE LET latest == ac.casebook[CHOOSE k \in mine : \A m \in mine : m <= k] IN
       [ok |-> TRUE, subject |-> <<"[DISPATCH]", siteId, latest.cause>>,
        when |-> latest.ts, actions |-> latest.actions]

\* composeDispatchEmail (rca.js 213-217): `latest` is the last case of the
\* site in the casebook, whatever it suggests; subject and body are built
\* from that case (cause, ts, actions)
composeDispatchEmail(ac, siteId) ==
  LET mine == { k \in DOMAIN ac.casebook :
                  /\ ac.casebook[k].siteId = siteId
                  /\ ~_isNoise(siteId, ac.casebook[k].cause) } IN
  IF mine = {} \/ ~ac.casebook[CHOOSE k \in mine : \A m \in mine : m <= k].dispatchSuggested
  THEN [ok |-> FALSE, error |-> "no_unresolved_case"]
  ELSE LET latest == ac.casebook[CHOOSE k \in mine : \A m \in mine : m <= k] IN
       [ok |-> TRUE, subject |-> <<"[DISPATCH]", siteId, latest.cause>>,
        when |-> latest.ts, actions |-> latest.actions]

InitDispatch ==
  /\ now = TickMs
  /\ supervisor = [status |-> "idle", startedAt |-> NoTime, runtimeSec |-> 0,
                   tasksRouted |-> 0, lastNote |-> NoNote, approvals |-> <<>>,
                   nextApprovalId |-> 1]
  /\ lastRet = [siteId |-> "", cases |-> 0,
                out |-> [ok |-> FALSE, error |-> ""]]
  /\ processed = <<>>
  /\ policy = DEFAULT_POLICY
  /\ notified = <<>>
  /\ autoEnabled = FALSE
  /\ agents = [A |-> "stopped", B |-> "stopped", C |-> "stopped", hA |-> 0]
  /\ agentC = NewAgentC
  /\ \E site \in {Healthy, Outage} : tower = [site |-> site, mode |-> "ok"]
  /\ lastState = NoSite
  /\ emitter = NewEmitter
  /\ buffer = <<>>
  /\ tasks = <<>>
  /\ handled = <<>>
  /\ published = <<>>
  /\ subscribers = NoSubscribers
  /\ perSite = NewPerSite
  /\ envCalls = 0

\* the route handler (rca.routes.js 46-53) calls composeDispatchEmail(siteId)
ComposeDispatchEmail ==
  /\ \E siteId \in {"S1", "S2"} :
       lastRet' = [siteId |-> siteId, cases |-> Len(agentC.casebook),
                   out |-> composeDispatchEmail(agentC, siteId)]
  /\ UNCHANGED <<now, supervisor, processed, policy, notified, autoEnabled, agents,
                 agentC, tower, lastState, emitter, buffer, tasks, handled, published,
                 subscribers, perSite, envCalls>>

NextDispatch ==
  \/ RecordIncident
  \/ \E i \in DOMAIN tasks : RecordFinish(i)
  \/ CasebookTick
  \/ ComposeDispatchEmail

SpecDispatch == InitDispatch /\ [][NextDispatch]_vars

\* the cases of the asked site the casebook held at the call
CasesAtCall ==
  { k \in 1..lastRet.cases : agentC.casebook[k].siteId = lastRet.siteId }

SuggestedAtCall == { k \in CasesAtCall : agentC.casebook[k].dispatchSuggested }

ComposedFrom(k) ==
  /\ lastRet.out.ok
  /\ lastRet.out.subject = <<"[DISPATCH]", lastRet.siteId, agentC.casebook[k].cause>>
  /\ lastRet.out.when = agentC.casebook[k].ts
  /\ lastRet.out.actions = agentC.casebook[k].actions

NoUnresolvedCase ==
  /\ ~lastRet.out.ok
  /\ lastRet.out.error = "no_unresolved_case"

-----------------------------------------------------------------------------
(* The duplicate ledger on its own: the running Supervisor is handed      *)
(* events with distinct ids (the k-th carries ts = k; the first is an      *)
(* alarm.raised, the others alarm.cleared, which are remembered and then   *)
(* ignored), the first event is handed in again, and the clock steps by    *)
(* more than PROCESSED_TTL_MS.  A run starts with an empty ledger or with  *)
(* the ledger as the first PROCESSED_PRUNE_SIZE - 2 events, all handed in  *)
(* at the start time, left it.  envCalls counts the distinct events handed *)
(* in; lastRet is what the last invocation of handleEvent met; the         *)
(* continuation of the one orchestrated event is not followed.             *)

LedgerEvent(k) ==
  Ev(IF k = 1 THEN "alarm.raised" ELSE "alarm.cleared", "S1", "MainsFailure", NoTime, k)

LedgerTickMs == PROCESSED_TTL_MS + TickMs

\* how many events the Supervisor handled before the run starts
LedgerStarts == {0, PROCESSED_PRUNE_SIZE - 2}

InitLedger ==
  /\ now = TickMs
  /\ supervisor = [status |-> "running", startedAt |-> TickMs, runtimeSec |-> 0,
                   tasksRouted |-> 0, lastNote |-> NoNote, approvals |-> <<>>,
                   nextApprovalId |-> 1]
  /\ lastRet = [evt |-> NoEvt, again |-> FALSE, dup |-> FALSE, age |-> 0,
                orchestrated |-> FALSE]
  /\ \E n \in LedgerStarts :
       /\ envCalls = n
       /\ processed = [id \in {eventId(LedgerEvent(k)) : k \in 1..n} |-> TickMs]
       /\ tasks = IF n = 0 THEN <<>>
                  ELSE <<NewTask("handle", "A", LedgerEvent(1), 0)>>
  /\ policy = DEFAULT_POLICY
  /\ notified = <<>>
  /\ autoEnabled = FALSE
  /\ agents = [A |-> "running", B |-> "running", C |-> "running", hA |-> 1]
  /\ agentC = NewAgentC
  /\ tower = [site |-> Outage, mode |-> "ok"]
  /\ lastState = NoSite
  /\ emitter = NewEmitter
  /\ buffer = <<>>
  /\ handled = <<>>
  /\ published = <<>>
  /\ subscribers = NoSubscribers
  /\ perSite = NewPerSite

\* handleEvent up to its first await (store.js 287-316), as Deliver, with
\* what it met kept in lastRet
LedgerHandle(evt, again) ==
  /\ processed' = ledgerAfter(processed, evt, now)
  /\ tasks' = IF orchestrates(processed, supervisor, evt)
              THEN Append(tasks, NewTask("handle", "A", evt, 0))
              ELSE tasks
  /\ lastRet' = [evt |-> evt, again |-> again,
                 dup |-> isDuplicate(processed, evt),
                 age |-> IF isDuplicate(processed, evt)
                         THEN now - processed[eventId(evt)] ELSE 0,
                 orchestrated |-> orchestrates(processed, supervisor, evt)]

LedgerDeliver ==
  /\ \E n \in LedgerStarts : n <= envCalls /\ envCalls < n + MaxLedgerEvents
  /\ LedgerHandle(LedgerEvent(envCalls + 1), FALSE)
  /\ envCalls' = envCalls + 1
  /\ UNCHANGED <<now, supervisor, policy, notified, autoEnabled, agents, agentC,
                 tower, lastState, emitter, buffer, handled, published,
                 subscribers, perSite>>

LedgerRedeliver ==
  /\ envCalls >= 1
  /\ LedgerHandle(LedgerEvent(1), TRUE)
  /\ UNCHANGED <<now, supervisor, policy, notified, autoEnabled, agents, agentC,
                 tower, lastState, emitter, buffer, handled, published,
                 subscribers, perSite, envCalls>>

LedgerTick ==
  /\ now < TickMs + MaxLedgerTicks * LedgerTickMs
  /\ now' = now + LedgerTickMs
  /\ UNCHANGED <<supervisor, lastRet, processed, policy, notified, autoEnabled, agents,
                 agentC, tower, lastState, emitter, buffer, tasks, handled, published,
                 subscribers, perSite, envCalls>>

NextLedger ==
  \/ LedgerDeliver
  \/ LedgerRedeliver
  \/ LedgerTick

SpecLedger == InitLedger /\ [][NextLedger]_vars

\* C34: in every reachable state the Supervisor's duplicate ledger holds at
\* most 5000 entries: when an insertion takes it past 5000, entries older
\* than 60 s are evicted so that the bound is restored.
C34_LedgerBounded == Cardinality(DOMAIN processed) <= PROCESSED_PRUNE_SIZE

\* C34 as the code has it: an insertion that leaves the ledger with more
\* than 5000 entries evicts the entries older than 60 s, so a ledger of
\* more than 5000 entries holds none that was older than 60 s at the last
\* insertion; the size itself is not bounded.
C34_OverflowHoldsOnlyFresh ==
  [][(processed' # processed /\ Cardinality(DOMAIN processed') > PROCESSED_PRUNE_SIZE)
       => \A k \in DOMAIN processed' : now - processed'[k] <= PROCESSED_TTL_MS]_vars

\* the insertion of the 5001st id evicted the entries older than 60 s, that
\* of the first event among them, and kept the younger ones
C34_Witness ==
  /\ envCalls = PROCESSED_PRUNE_SIZE + 1
  /\ ~lastRet.again
  /\ ~Has(processed, eventId(LedgerEvent(1)))
  /\ Has(processed, eventId(LedgerEvent(PROCESSED_PRUNE_SIZE)))
  /\ Has(processed, eventId(LedgerEvent(PROCESSED_PRUNE_SIZE + 1)))

\* a step removes entries only if the ledger held at least 5000 before it,
\* so that the insertion of the step took it past 5000
RemovalOnlyPastPruneSize ==
  [][(\E k \in DOMAIN processed : k \notin DOMAIN processed')
       => Cardinality(DOMAIN processed) >= PROCESSED_PRUNE_SIZE]_vars

\* while no more than 5000 distinct events were handed in, the first event
\* handed in again is met as a duplicate and starts no orchestration
RedeliverySuppressed ==
  (lastRet.again /\ envCalls <= PROCESSED_PRUNE_SIZE)
     => (lastRet.dup /\ ~lastRet.orchestrated /\ Len(tasks) = 1)

\* C40: a ledger entry is never removed while the ledger holds 5000 or
\* fewer entries, and the duplicate check does not look at the entry's age:
\* an identical event redelivered more than 60 s after its first delivery
\* is still suppressed as a duplicate and does not drive orchestration.
C40_EntriesOutliveTtl == RemovalOnlyPastPruneSize /\ []RedeliverySuppressed

\* the first event came again when its entry was older than 60 s
C40_Witness ==
  /\ lastRet.again
  /\ lastRet.dup
  /\ lastRet.age > PROCESSED_TTL_MS
  /\ ~lastRet.orchestrated
  /\ Len(tasks) = 1

-----------------------------------------------------------------------------
(* The Supervisor's lifecycle on its own: start, stop, pause and resume    *)
(* are called in any order on a healthy site while the clock advances in   *)
(* steps that are no whole number of seconds.                              *)

\* summary().runtimeSec (store.js 72, 81)
summaryRuntimeSec(sup, t) ==
  sup.runtimeSec + (IF sup.startedAt = NoTime THEN 0 ELSE (t - sup.startedAt) \div 1000)

InitLifecycle ==
  /\ now = TickMs
  /\ supervisor = [status |-> "idle", startedAt |-> NoTime, runtimeSec |-> 0,
                   tasksRouted |-> 0, lastNote |-> NoNote, approvals |-> <<>>,
                   nextApprovalId |-> 1]
  /\ lastRet = ""
  /\ processed = <<>>
  /\ policy = DEFAULT_POLICY
  /\ notified = <<>>
  /\ autoEnabled = FALSE
  /\ agents = [A |-> "stopped", B |-> "stopped", C |-> "stopped", hA |-> 0]
  /\ agentC = NewAgentC
  /\ tower = [site |-> Healthy, mode |-> "ok"]
  /\ lastState = NoSite
  /\ emitter = NewEmitter
  /\ buffer = <<>>
  /\ tasks = <<>>
  /\ handled = <<>>
  /\ published = <<>>
  /\ subscribers = NoSubscribers
  /\ perSite = NewPerSite
  /\ envCalls = 0

LifecycleTick ==
  /\ now < TickMs + MaxLifecycleTicks * LifecycleTickMs
  /\ now' = now + LifecycleTickMs
  /\ UNCHANGED <<supervisor, lastRet, processed, policy, notified, autoEnabled, agents,
                 agentC, tower, lastState, emitter, buffer, tasks, handled, published,
                 subscribers, perSite, envCalls>>

NextLifecycle ==
  \/ Start
  \/ Stop
  \/ Pause
  \/ Resume
  \/ LifecycleTick
  \/ \E i \in DOMAIN tasks : EnsureRunningStep(i)
  \/ \E i \in DOMAIN tasks : EnsureStoppedStep(i)
  \/ \E i \in DOMAIN tasks : ColdStartSweepStep(i)

SpecLifecycle == InitLifecycle /\ [][NextLifecycle]_vars

\* the reported runtime never decreases from one state to the next
RuntimeNeverDecreases ==
  summaryRuntimeSec(supervisor', now') >= summaryRuntimeSec(supervisor, now)

\* a lifecycle call leaves the reported runtime as it is: what pause and stop
\* add to runtimeSec is what summary() counted as live before the call
CallKeepsRuntime ==
  (Start \/ Stop \/ Pause \/ Resume)
     => summaryRuntimeSec(supervisor', now') = summaryRuntimeSec(supervisor, now)

\* the reported runtime grows with the clock while the Supervisor runs, by
\* the whole seconds since it was started or resumed, and only then
ClockCountsWhileRunning ==
  LifecycleTick
     => IF supervisor.status = "running"
        THEN summaryRuntimeSec(supervisor', now') =
               supervisor.runtimeSec + (now' - supervisor.startedAt) \div 1000
        ELSE summaryRuntimeSec(supervisor', now') = supervisor.runtimeSec

StartLeavesRunning == Start => supervisor'.status = "running"

\* C33: the runtimeSec reported by summary() never decreases across any
\* sequence of start, pause, resume and stop calls with a non-decreasing
\* clock: time spent running is accumulated on pause and stop and counted
\* exactly once, and start, stop, start leaves the Supervisor running.
C33_RuntimeMonotonic ==
  [][/\ RuntimeNeverDecreases
     /\ CallKeepsRuntime
     /\ ClockCountsWhileRunning
     /\ StartLeavesRunning]_vars

\* start, stop and start again, each after a clock step: the Supervisor
\* runs and reports the one whole second of its first run
C33_Witness ==
  /\ supervisor.status = "running"
  /\ envCalls = 3
  /\ Len(tasks) = 3
  /\ tasks[1].kind = "start" /\ tasks[2].kind = "ensureStop" /\ tasks[3].kind = "start"
  /\ supervisor.runtimeSec = 1
  /\ now > supervisor.startedAt
  /\ summaryRuntimeSec(supervisor, now) = 2

-----------------------------------------------------------------------------
(* The Tower Client on its own (tower/client.js): getState, power and rru  *)
(* each create one request with fetch(...) and hand the promise to         *)
(* json(req), which awaits it and, on an error, waits RETRY_MS and calls   *)
(* json(req, attempt + 1) with the same promise.  The simulator answers    *)
(* (2xx) or fails, and may change while calls are under way.               *)

RETRY_MS == 1000
MAX_RETRIES == 2

ClientOps == {"getState", "power", "rru"}

\* how a request to a failing simulator ends: an error status or no answer
Failures == {"non2xx", "rejected"}

\* getState / power / rru: fetch(...) sends the request, json(req) starts
\* with attempt = 0.  requests counts the requests sent for the call,
\* okAtRetry whether the simulator answered when a retry was made
NewCall(op) ==
  [kind |-> "json", op |-> op, req |-> "pending", attempt |-> 0, requests |-> 1,
   waited |-> 0, okAtRetry |-> FALSE, pc |-> "await", out |-> ""]

\* json, `await req` and what follows (client.js 10-27): a settled promise
\* gives what it gave before; a Response read once cannot be read again, so
\* an error status fails again; catch retries while attempt < MAX_RETRIES
jsonAwait(t, settled) ==
  IF settled = "2xx" /\ t.attempt = 0
  THEN [t EXCEPT !.req = settled, !.out = "ok", !.pc = "done"]
  ELSE IF t.attempt < MAX_RETRIES
  THEN [t EXCEPT !.req = settled, !.pc = "timer"]
  ELSE [t EXCEPT !.req = settled, !.out = "error", !.pc = "done"]

\* the timer of the catch block fired: json(req, attempt + 1)
jsonRetry(t, mode) ==
  [t EXCEPT !.attempt = @ + 1, !.waited = @ + RETRY_MS, !.pc = "await",
            !.okAtRetry = @ \/ mode # "down"]

InitClient ==
  /\ now = TickMs
  /\ supervisor = [status |-> "idle", startedAt |-> NoTime, runtimeSec |-> 0,
                   tasksRouted |-> 0, lastNote |-> NoNote, approvals |-> <<>>,
                   nextApprovalId |-> 1]
  /\ lastRet = ""
  /\ processed = <<>>
  /\ policy = DEFAULT_POLICY
  /\ notified = <<>>
  /\ autoEnabled = FALSE
  /\ agents = [A |-> "stopped", B |-> "stopped", C |-> "stopped", hA |-> 0]
  /\ agentC = NewAgentC
  /\ \E m \in {"ok", "down"} : tower = [site |-> Outage, mode |-> m]
  /\ lastState = NoSite
  /\ emitter = NewEmitter
  /\ buffer = <<>>
  /\ tasks = <<>>
  /\ handled = <<>>
  /\ published = <<>>
  /\ subscribers = NoSubscribers
  /\ perSite = NewPerSite
  /\ envCalls = 0

ClientCall ==
  /\ Env
  /\ \E op \in ClientOps : tasks' = Append(tasks, NewCall(op))
  /\ UNCHANGED <<now, supervisor, lastRet, processed, policy, notified, autoEnabled,
                 agents, agentC, tower, lastState, emitter, buffer, handled, published,
                 subscribers, perSite>>

JsonStep(i) ==
  /\ tasks[i].kind = "json"
  /\ \/ /\ tasks[i].pc = "await"
        /\ \E settled \in IF tasks[i].req # "pending" THEN {tasks[i].req}
                          ELSE IF tower.mode = "down" THEN Failures ELSE {"2xx"} :
             tasks' = [tasks EXCEPT ![i] = jsonAwait(@, settled)]
     \/ /\ tasks[i].pc = "timer"
        /\ tasks' = [tasks EXCEPT ![i] = jsonRetry(@, tower.mode)]
  /\ UNCHANGED <<now, supervisor, lastRet, processed, policy, notified, autoEnabled,
                 agents, agentC, tower, lastState, emitter, buffer, handled, published,
                 subscribers, perSite, envCalls>>

NextClient ==
  \/ ClientCall
  \/ SimulatorModeChange
  \/ \E i \in DOMAIN tasks : JsonStep(i)

SpecClient == InitClient /\ [][NextClient]_vars

\* C32: a Tower Client operation whose request fails (non-2xx status or
\* network error) sends the request again, up to 2 more times with 1 s
\* spacing (at most 3 requests in total); it returns the first successful
\* response, so a request that fails once and would succeed on the second
\* try succeeds, and it surfaces the error only after all 3 attempts have
\* failed.
C32_RetrySendsAgain ==
  \A i \in DOMAIN tasks :
    /\ tasks[i].requests = tasks[i].attempt + 1
    /\ tasks[i].requests <= MAX_RETRIES + 1
    /\ tasks[i].out = "error" => tasks[i].requests = MAX_RETRIES + 1
    /\ (tasks[i].pc = "done" /\ tasks[i].okAtRetry) => tasks[i].out = "ok"

-----------------------------------------------------------------------------
(* The ring of the Incident Bus on its own: events are published one after *)
(* the other (the k-th carries ts = k), a diagnostic endpoint takes        *)
(* getRecentEvents() and changes the array it got.                         *)

\* getRecentEvents(): buffer.slice(), an array of its own
getRecentEvents(buf) == [items |-> buf, shared |-> FALSE, mutated |-> FALSE]

InitRing ==
  /\ now = TickMs
  /\ supervisor = [status |-> "running", startedAt |-> TickMs, runtimeSec |-> 0,
                   tasksRouted |-> 0, lastNote |-> NoNote, approvals |-> <<>>,
                   nextApprovalId |-> 1]
  /\ lastRet = getRecentEvents(<<>>)
  /\ processed = <<>>
  /\ policy = DEFAULT_POLICY
  /\ notified = <<>>
  /\ autoEnabled = FALSE
  /\ agents = [A |-> "stopped", B |-> "stopped", C |-> "stopped", hA |-> 0]
  /\ agentC = NewAgentC
  /\ tower = [site |-> Healthy, mode |-> "ok"]
  /\ lastState = NoSite
  /\ emitter = NewEmitter
  /\ buffer = <<>>
  /\ tasks = <<>>
  /\ handled = <<>>
  /\ published = <<>>
  /\ subscribers = NoSubscribers
  /\ perSite = NewPerSite
  /\ envCalls = 0

\* publish(evt) of the next event
RingPublish ==
  /\ Len(published) < MaxPublishes
  /\ LET evt == Ev("alarm.raised", "S1", "MainsFailure", NoTime, Len(published) + 1)
         b == onEvent(Bus, evt, now, policy, agents) IN
     /\ buffer' = b.buffer
     /\ subscribers' = b.subscribers
     /\ perSite' = b.perSite
     /\ supervisor' = b.sup
     /\ published' = Append(published, evt)
  /\ UNCHANGED <<now, lastRet, processed, policy, notified, autoEnabled, agents,
                 agentC, tower, lastState, emitter, tasks, handled, envCalls>>

\* GET /api/logs and the like: getRecentEvents()
GetRecentEvents ==
  /\ lastRet' = getRecentEvents(buffer)
  /\ lastRet' # lastRet
  /\ UNCHANGED <<now, supervisor, processed, policy, notified, autoEnabled, agents,
                 agentC, tower, lastState, emitter, buffer, tasks, handled, published,
                 subscribers, perSite, envCalls>>

\* the caller changes the array it was given, once (shift, pop, or emptying
\* it); the ring changes with it only if it is the same array
MutateCopy ==
  /\ lastRet.items # <<>>
  /\ ~lastRet.mutated
  /\ \E items \in {Tail(lastRet.items),
                    SubSeq(lastRet.items, 1, Len(lastRet.items) - 1), <<>>} :
       /\ lastRet' = [lastRet EXCEPT !.items = items, !.mutated = TRUE]
       /\ buffer' = IF lastRet.shared THEN items ELSE buffer
  /\ UNCHANGED <<now, supervisor, processed, policy, notified, autoEnabled, agents,
                 agentC, tower, lastState, emitter, tasks, handled, published,
                 subscribers, perSite, envCalls>>

NextRing == RingPublish \/ GetRecentEvents \/ MutateCopy

SpecRing == InitRing /\ [][NextRing]_vars

\* the most recent min(n, MAX_EVENTS) of the n published events, in order
MostRecent ==
  SubSeq(published,
         IF Len(published) > MAX_EVENTS THEN Len(published) - MAX_EVENTS + 1 ELSE 1,
         Len(published))

\* C25: the ring never holds more than 100 events; after any sequence of
\* publishes it holds exactly the most recent min(n, 100) published events
\* in publish order; changing the array getRecentEvents returned does not
\* change the ring.
C25_RingHoldsMostRecent ==
  /\ [](Len(buffer) <= 100 /\ buffer = MostRecent)
  /\ [][lastRet'.mutated /\ lastRet' # lastRet => buffer' = buffer]_vars
  /\ [][~lastRet'.mutated /\ lastRet' # lastRet => lastRet'.items = buffer]_vars

\* 102 events were published: the ring holds events 3..102, and a copy taken
\* earlier was changed
C25_Witness ==
  /\ Len(published) = 102
  /\ Len(buffer) = 100
  /\ buffer[1].ts = 3
  /\ buffer[100].ts = 102
  /\ lastRet.mutated
  /\ lastRet.items # buffer

-----------------------------------------------------------------------------
(* The Incident Bus with its subscribers: producers publish alarm events   *)
(* of site S1, with or without a `timestamp`, while SSE clients connect,   *)
(* start failing and close, Agent A listens with the one handler its       *)
(* start() registered, and a batch is posted to correlate.                 *)

\* a standing alarm raised with no timestamp, on time, or late (its
\* timestamp older than the clock); its clearing; a noise alarm
BusPubEvents ==
  { Ev("alarm.raised", "S1", "MainsFailure", tst, TickMs) :
      tst \in {NoTime, TickMs, TickMs - 5000} }
  \cup { Ev("alarm.cleared", "S1", "MainsFailure", NoTime, TickMs),
         Ev("alarm.raised", "S1", "heartbeat", NoTime, TickMs) }

BusBatches ==
  { <<>>, Scenario27,
    <<Scenario27[3], [Scenario27[1] EXCEPT !.timestamp = 600001], Scenario27[2]>> }

InitBus ==
  /\ now = TickMs
  /\ supervisor = [status |-> "running", startedAt |-> TickMs, runtimeSec |-> 0,
                   tasksRouted |-> 0, lastNote |-> NoNote, approvals |-> <<>>,
                   nextApprovalId |-> 1]
  /\ lastRet \in { [events |-> b, ran |-> FALSE, incidents |-> <<>>] : b \in BusBatches }
  /\ processed = <<>>
  /\ policy = DEFAULT_POLICY
  /\ notified = <<>>
  /\ autoEnabled = FALSE
  /\ agents = [A |-> "running", B |-> "stopped", C |-> "stopped", hA |-> 1]
  /\ agentC = NewAgentC
  /\ tower = [site |-> Outage, mode |-> "ok"]
  /\ lastState = NoSite
  /\ emitter = NewEmitter
  /\ buffer = <<>>
  /\ tasks = <<>>
  /\ handled = <<>>
  /\ published = <<>>
  /\ subscribers = NoSubscribers
  /\ perSite = NewPerSite
  /\ envCalls = 0

\* publish(evt) by some producer
BusPublish ==
  /\ Len(published) < MaxBusEvents
  /\ \E evt \in BusPubEvents :
       LET b == onEvent(Bus, evt, now, policy, agents) IN
       /\ buffer' = b.buffer
       /\ subscribers' = b.subscribers
       /\ perSite' = b.perSite
       /\ supervisor' = b.sup
       /\ published' = Append(published, evt)
  /\ UNCHANGED <<now, lastRet, processed, policy, notified, autoEnabled, agents,
                 agentC, tower, lastState, emitter, tasks, handled, envCalls>>

\* subscribe(res): the client joins the set and is sent the last five events
SseSubscribe(id) ==
  /\ ~subscribers[id].attached
  /\ subscribers' =
       [subscribers EXCEPT ![id] =
          [attached |-> TRUE, broken |-> FALSE,
           received |-> SubSeq(buffer,
                               IF Len(buffer) > 5 THEN Len(buffer) - 4 ELSE 1,
                               Len(buffer))]]
  /\ UNCHANGED <<now, supervisor, lastRet, processed, policy, notified, autoEnabled,
                 agents, agentC, tower, lastState, emitter, buffer, tasks, handled,
                 published, perSite, envCalls>>

\* from now on res.write throws for this client
SseBreak(id) ==
  /\ subscribers[id].attached
  /\ ~subscribers[id].broken
  /\ subscribers' = [subscribers EXCEPT ![id].broken = TRUE]
  /\ UNCHANGED <<now, supervisor, lastRet, processed, policy, notified, autoEnabled,
                 agents, agentC, tower, lastState, emitter, buffer, tasks, handled,
                 published, perSite, envCalls>>

\* res.on('close'): the client leaves the set
SseClose(id) ==
  /\ subscribers[id].attached
  /\ subscribers' = [subscribers EXCEPT ![id].attached = FALSE]
  /\ UNCHANGED <<now, supervisor, lastRet, processed, policy, notified, autoEnabled,
                 agents, agentC, tower, lastState, emitter, buffer, tasks, handled,
                 published, perSite, envCalls>>

NextBus ==
  \/ BusPublish
  \/ \E id \in SubIds : SseSubscribe(id)
  \/ \E id \in SubIds : SseBreak(id)
  \/ \E id \in SubIds : SseClose(id)
  \/ CorrelateBatch

SpecBus == InitBus /\ [][NextBus]_vars

\* seq ends with the elements of tail
IsSuffix(tail, seq) ==
  /\ Len(tail) <= Len(seq)
  /\ tail = SubSeq(seq, Len(seq) - Len(tail) + 1, Len(seq))

\* the incident of site S1 Agent A touched last: the open one, else the one
\* closed last
LastTouched ==
  IF perSite["S1"].open # <<>> THEN perSite["S1"].open
  ELSE IF perSite["S1"].closed # <<>>
  THEN <<perSite["S1"].closed[Len(perSite["S1"].closed)]>>
  ELSE <<>>

\* C24: every published event is written, in publish order, to every
\* subscriber attached at that time, and a subscriber whose write throws
\* keeps neither that event nor later ones from the other subscribers, the
\* ring and Agent A's handler.
C24_DeliveryInPublishOrder ==
  /\ [](\A id \in SubIds :
          subscribers[id].attached /\ ~subscribers[id].broken
            => IsSuffix(subscribers[id].received, published))
  /\ [][published' # published =>
          LET evt == published'[Len(published')] IN
          /\ \A id \in SubIds :
               subscribers'[id].received =
                 IF subscribers[id].attached /\ ~subscribers[id].broken
                 THEN Append(subscribers[id].received, evt)
                 ELSE subscribers[id].received
          /\ buffer' # <<>> /\ buffer'[Len(buffer')] = evt
          /\ evt.alarm = "MainsFailure" =>
               /\ LastTouched' # <<>>
               /\ LastTouched'[1].events[Len(LastTouched'[1].events)] = evt
               /\ perSite' # perSite]_vars

\* client 1 fails, client 2 connected after the first event: client 2 has
\* the replayed first event and the two later ones, Agent A has them all
C24_Witness ==
  /\ Len(published) = 3
  /\ subscribers[1].attached /\ subscribers[1].broken
  /\ Len(subscribers[1].received) = 1
  /\ subscribers[2].attached /\ ~subscribers[2].broken
  /\ subscribers[2].received = published
  /\ \A k \in 1..3 : published[k].alarm = "MainsFailure"
  /\ Len(perSite["S1"].closed) + Len(perSite["S1"].open) >= 1

\* the incidents Agent A holds (open and closed, of every site) and the
\* ones its batch correlate returned
HeldIncidents ==
  UNION { {s.open[k] : k \in DOMAIN s.open}
            \cup { [siteId |-> s.closed[k].siteId, start |-> s.closed[k].start,
                    end |-> s.closed[k].end, count |-> s.closed[k].count,
                    types |-> s.closed[k].types, events |-> s.closed[k].events] :
                      k \in DOMAIN s.closed } :
          s \in {perSite[site] : site \in DOMAIN perSite} }
  \cup {lastRet.incidents[k] : k \in DOMAIN lastRet.incidents}

\* C29: every incident Agent A holds or returns, open or closed, streaming
\* or batch, has start <= end, at least one type, and count equal to the
\* number of its events.
C29_IncidentsWellFormed ==
  \A inc \in HeldIncidents :
    /\ inc.start <= inc.end
    /\ inc.types # <<>>
    /\ inc.count = Len(inc.events)

-----------------------------------------------------------------------------
(* Agent A's streaming correlation behind the Tower Bridge: the bridge     *)
(* gets snapshots of a simulator whose site S1 fails and recovers, feeds   *)
(* the Delta Emitter and announces each snapshot on channel 'event';       *)
(* producers publish alarm events; Agent A is stopped and started through  *)
(* its routes; the clock steps over the correlation window.                *)

InitStream ==
  /\ now = TickMs
  /\ supervisor = [status |-> "running", startedAt |-> TickMs, runtimeSec |-> 0,
                   tasksRouted |-> 0, lastNote |-> NoNote, approvals |-> <<>>,
                   nextApprovalId |-> 1]
  /\ lastRet = ""
  /\ processed = <<>>
  /\ policy = DEFAULT_POLICY
  /\ notified = <<>>
  /\ autoEnabled = FALSE
  /\ agents = [A |-> "running", B |-> "stopped", C |-> "stopped", hA |-> 1]
  /\ agentC = NewAgentC
  /\ \E site \in {Healthy, Outage} : tower = [site |-> site, mode |-> "ok"]
  /\ lastState = NoSite
  /\ emitter \in {DeltaEmitter(b) : b \in BOOLEAN}
  /\ buffer = <<>>
  /\ tasks = <<>>
  /\ handled = <<>>
  /\ published = <<>>
  /\ subscribers = NoSubscribers
  /\ perSite = NewPerSite
  /\ envCalls = 0

\* POST /api/agents/correlation/start: correlationAgent.start()
CorrelationStart ==
  /\ agents.hA < MaxHandlers
  /\ agents' = startA(agents)
  /\ UNCHANGED <<now, supervisor, lastRet, processed, policy, notified, autoEnabled,
                 agentC, tower, lastState, emitter, buffer, tasks, handled, published,
                 subscribers, perSite, envCalls>>

\* POST /api/agents/correlation/stop: correlationAgent.stop(); the disposer
\* it calls removes no handler (_attachBus drops the unsubscribe of onIncident)
CorrelationStop ==
  /\ agents' = [agents EXCEPT !.A = "stopped"]
  /\ UNCHANGED <<now, supervisor, lastRet, processed, policy, notified, autoEnabled,
                 agentC, tower, lastState, emitter, buffer, tasks, handled, published,
                 subscribers, perSite, envCalls>>

\* site S1 loses mains and both antennas, or recovers
TowerChange ==
  /\ \E site \in {Healthy, Outage} \ {tower.site} : tower' = [tower EXCEPT !.site = site]
  /\ UNCHANGED <<now, supervisor, lastRet, processed, policy, notified, autoEnabled,
                 agents, agentC, lastState, emitter, buffer, tasks, handled, published,
                 subscribers, perSite, envCalls>>

\* the clock reaches the end of the correlation window, or passes it
StreamTick ==
  /\ now < TickMs + MaxStreamTicks * windowMs
  /\ \E d \in {windowMs, windowMs + 1} : now' = now + d
  /\ UNCHANGED <<supervisor, lastRet, processed, policy, notified, autoEnabled, agents,
                 agentC, tower, lastState, emitter, buffer, tasks, handled, published,
                 subscribers, perSite, envCalls>>

\* a producer publishes a standing alarm of S1 stamped with the present time
StreamPublish ==
  /\ Env
  /\ LET evt == Ev("alarm.raised", "S1", "MainsFailure", now, now)
         b == onEvent(Bus, evt, now, policy, agents) IN
       /\ buffer' = b.buffer
       /\ subscribers' = b.subscribers
       /\ perSite' = b.perSite
       /\ supervisor' = b.sup
       /\ published' = Append(published, evt)
  /\ UNCHANGED <<now, lastRet, processed, policy, notified, autoEnabled, agents,
                 agentC, tower, lastState, emitter, tasks, handled>>

NextStream ==
  \/ BridgeRefresh
  \/ StreamPublish
  \/ CorrelationStart
  \/ CorrelationStop
  \/ TowerChange
  \/ StreamTick

SpecStream == InitStream /\ [][NextStream]_vars

\* what the Delta Emitter emits for the snapshot the bridge would get now,
\* and the bus once Agent A handled these events
DeltaEvents == ingest(emitter, towerState(tower.site), now).events

AfterDelta == emitAll(Bus, DeltaEvents, now, policy, agents)

\* C36: in streaming mode, when Agent A is running and has an open incident
\* for a site, a state.update event published by the Tower Bridge whose
\* snapshot reports that site with mains = 'on' and siteAlive = true closes
\* that incident with reason service_restored.
C36_StateUpdateCloses ==
  [][(/\ BridgeRefresh
      /\ agents.A = "running"
      /\ tower.site.mains = "on" /\ tower.site.siteAlive
      /\ AfterDelta.perSite["S1"].open # <<>>)
       => /\ perSite'["S1"].open = <<>>
          /\ Last(perSite'["S1"].closed).reason = "service_restored"]_vars

\* the time an event carries: its timestamp, or the ts its producer stamped
TimeOfEvent(e) == IF e.timestamp # NoTime THEN e.timestamp ELSE e.ts

\* the first alarm the Delta Emitter emits for the present snapshot is a
\* standing critical alarm of S1 reaching Agent A's only handler while S1
\* has an open incident
DeltaAlarmMeetsOpen ==
  /\ agents.A = "running" /\ agents.hA = 1
  /\ perSite["S1"].open # <<>>
  /\ DeltaEvents # <<>>
  /\ DeltaEvents[1].type = "alarm.raised"
  /\ DeltaEvents[1].siteId = "S1"
  /\ isCriticalAlarm(DeltaEvents[1].alarm)

\* C37: in streaming mode, an alarm event emitted by the Delta Emitter for a
\* site that has an open incident, arriving within windowMs of that
\* incident's end, extends the incident (end updated, count incremented by
\* 1, alarm added to types, event appended); only when the gap exceeds
\* windowMs is the open incident closed with reason window_elapsed and a new
\* incident started.
C37_DeltaAlarmExtends ==
  [][(BridgeRefresh /\ DeltaAlarmMeetsOpen)
       => LET e == DeltaEvents[1]
              o == perSite["S1"].open[1]
              after == onEvent(Bus, e, now, policy, agents).perSite["S1"]
          IN IF e.ts - TimeOfEvent(Last(o.events)) <= windowMs
             THEN /\ after.closed = perSite["S1"].closed
                  /\ after.open = <<[o EXCEPT !.end = e.ts,
                                              !.count = @ + 1,
                                              !.types = setOf(Append(@, e.alarm)),
                                              !.events = Append(@, e)]>>
             ELSE /\ Len(after.closed) = Len(perSite["S1"].closed) + 1
                  /\ Last(after.closed).reason = "window_elapsed"
                  /\ Last(after.closed).events = o.events
                  /\ Len(after.open) = 1
                  /\ after.open[1].events = <<e>>]_vars

\* incidents Agent A opened for S1, and events it merged into them
OpenedIncidents(ps) == ps["S1"].closed \o ps["S1"].open

RECURSIVE MergedEvents(_)
MergedEvents(incs) ==
  IF incs = <<>> THEN 0 ELSE Head(incs).count + MergedEvents(Tail(incs))

\* C39: across any number of Agent A stop/start cycles, each event published
\* on the Incident Bus is processed by Agent A's streaming handler at most
\* once while Agent A is running: one published alarm event raises the
\* count of the site's open incident by exactly 1 (or opens exactly one
\* incident), and none while Agent A is stopped.
C39_PublishedOnce ==
  [][StreamPublish
       => IF agents.A = "running"
          THEN /\ MergedEvents(OpenedIncidents(perSite'))
                    = MergedEvents(OpenedIncidents(perSite)) + 1
               /\ Len(OpenedIncidents(perSite')) <= Len(OpenedIncidents(perSite)) + 1
               /\ perSite'["S1"].open # <<>>
          ELSE perSite' = perSite]_vars

\* what the code does instead: the second alarm of one snapshot splits the
\* incident although no time has passed; a single handler merges once
DeltaAlarmWithinWindowSplits ==
  [][(BridgeRefresh /\ DeltaAlarmMeetsOpen /\ Len(DeltaEvents) >= 2
        /\ DeltaEvents[2].type = "alarm.raised" /\ isCriticalAlarm(DeltaEvents[2].alarm))
       => Last(perSite'["S1"].closed).reason = "window_elapsed"]_vars

SingleHandlerPublishedOnce ==
  [][(StreamPublish /\ agents.hA = 1 /\ agents.A = "running")
       => MergedEvents(OpenedIncidents(perSite'))
            = MergedEvents(OpenedIncidents(perSite)) + 1]_vars

=============================================================================
